---- MODULE Spec2Model ----
(***************************************************************************)
(* Relay core of project-aria: the ws-based downstream gateway             *)
(* (WebSocketServer, websocketServer.ts:229-380) and the socket.io-based   *)
(* one (websocketServer.ts:8-215), each together with the upstream         *)
(* connector (BinanceService, binanceService.ts in its current variant).   *)
(* One action per event handler; every handler is modelled together with   *)
(* the calls it makes into the other component.  An async handler that     *)
(* awaits is two actions, the part before the await and its continuation.  *)
(*                                                                         *)
(* JavaScript Set/Map iterate in insertion order, so a Set is modelled as  *)
(* a duplicate-free sequence and a Map as a function on its key set.       *)
(* The variables upFrames, calls, rejected, emitted, clientOut and lastOp  *)
(* record what the LAST handler did (frames written to the upstream        *)
(* socket, connector calls made by the gateway, rejected promises,         *)
(* connector events, messages written to each client socket).              *)
(*                                                                         *)
(* Nine specifications share the variables:                                *)
(*   Spec           the ws gateway and the connector as index.ts wires     *)
(*                  them;                                                  *)
(*   SpecSocketIo   the socket.io gateway and the connector, rooms being   *)
(*                  the sockets joined to each symbol and awaiting the     *)
(*                  handleSubscribe calls suspended at their await;        *)
(*   SpecConnector  the connector alone, its owner calling connect(),      *)
(*                  disconnect(), subscribe() and unsubscribe(), with a    *)
(*                  send that may throw and with the sockets this.ws no    *)
(*                  longer refers to kept in orphans;                      *)
(*   SpecDepth      the depth ladder builder of handleDepthMessage as a    *)
(*                  function of one side of a depth frame;                 *)
(*   SpecOlder      the older variant of the connector alone;              *)
(*   SpecAnyOrder   the ws gateway with a client socket's 'message',       *)
(*                  'error' and 'close' listeners run in any order;        *)
(*   SpecMarketProvider  the frontend's MarketProvider: its socket's       *)
(*                  'connect', 'disconnect' and 'error' listeners and the  *)
(*                  application's subscribe and unsubscribe calls;         *)
(*   SpecReducer    the frontend's marketReducer under every action;       *)
(*   SpecOlderReducer  the older frontend's marketReducer under every      *)
(*                  action.                                                *)
(* A specification leaves the variables it does not use at their initial   *)
(* values.                                                                 *)
(***************************************************************************)
EXTENDS Integers, Sequences, FiniteSets, TLC

\* ------------------------------------------------------------------ bounds
\* control frames carry ids 1 .. MaxSubscriptionId - 1
MaxSubscriptionId == 3
\* the connector's owner calls connect() only while fewer than MaxSockets
\* upstream sockets and reconnect timers exist
MaxSockets == 3
\* a side of a depth frame given to the ladder builder has at most MaxLevels levels
MaxLevels == 3

\* ------------------------------------------------------- program constants
maxReconnectAttempts == 5
reconnectDelay == 1000

\* --------------------------------------------------------------- universes
\* the downstream clients, named in the order in which the gateway accepts them
ClientOrder == << "c1", "c2" >>
Clients == {ClientOrder[i] : i \in 1..Len(ClientOrder)}
Symbols == {"BTCUSDT", "ETHUSDT"}
Undefined == "<undefined>"

\* `symbol.toLowerCase()` on the symbols of the model
toLowerCase(s) ==
  CASE s = "BTCUSDT" -> "btcusdt"
    [] s = "ETHUSDT" -> "ethusdt"
    [] OTHER -> s

\* `symbol.toUpperCase()` on the stream prefixes of the model
toUpperCase(s) ==
  CASE s = "btcusdt" -> "BTCUSDT"
    [] s = "ethusdt" -> "ETHUSDT"
    [] OTHER -> s

\* the channel list imported from ../utils/stream
streams == <<"trade", "depth20", "ticker">>

ErrorCodes ==
  [ WEBSOCKET_CONNECTION_FAILED   |-> "WEBSOCKET_CONNECTION_FAILED",
    WEBSOCKET_SUBSCRIPTION_FAILED |-> "WEBSOCKET_SUBSCRIPTION_FAILED",
    WEBSOCKET_MESSAGE_PARSE_ERROR |-> "WEBSOCKET_MESSAGE_PARSE_ERROR",
    WEBSOCKET_CONNECTION_CLOSED   |-> "WEBSOCKET_CONNECTION_CLOSED",
    INVALID_MARKET_DATA           |-> "INVALID_MARKET_DATA",
    MAX_RECONNECTION_ATTEMPTS     |-> "MAX_RECONNECTION_ATTEMPTS" ]

AppError(message, code, statusCode) ==
  [message |-> message, code |-> code, statusCode |-> statusCode]

\* ---------------------------------------------------- JavaScript Set / Map
SetHas(set, x) == \E i \in 1..Len(set) : set[i] = x
SetAdd(set, x) == IF SetHas(set, x) THEN set ELSE Append(set, x)
SetDelete(set, x) == SelectSeq(set, LAMBDA y : y # x)
SetElems(set) == {set[i] : i \in 1..Len(set)}

MapHas(map, k) == k \in DOMAIN map
MapSet(map, k, v) == [x \in (DOMAIN map) \cup {k} |-> IF x = k THEN v ELSE map[x]]
MapDelete(map, k) == [x \in (DOMAIN map) \ {k} |-> map[x]]
EmptyMap == [x \in {} |-> <<>>]

\* 2^n, for the reconnect back-off
RECURSIVE Pow2(_)
Pow2(n) == IF n <= 0 THEN 1 ELSE 2 * Pow2(n - 1)

\* JavaScript truthiness of a string field / a numeric field of a parsed frame
NoNumber == -1
TruthyStr(v) == v # Undefined /\ v # ""
TruthyNum(v) == v # NoNumber /\ v # 0

\* the frontend's initialState (MarketContext.tsx); null is "null"
initialState ==
  [ tickers |-> EmptyMap, trades |-> EmptyMap, orderBooks |-> EmptyMap,
    error |-> "null", isConnected |-> FALSE, decimalPrecision |-> EmptyMap ]

\* the older frontend's initialState
olderInitialState ==
  [ tickers |-> EmptyMap, orderBooks |-> EmptyMap, trades |-> EmptyMap,
    subscribedSymbols |-> <<>>, error |-> "null" ]

\* ------------------------------------------------------------------- state
VARIABLES
  subscriptions,        \* gateway: Map<symbol, Set<client>>
  clientSubscriptions,  \* gateway: Map<client, Set<symbol>>
  clientReady,          \* readyState of each client socket ("NONE" before accept)
  clientErrored,        \* the client socket has emitted 'error' and not yet 'close'
  gateway,              \* which WebSocketServer class runs: "ws" or "socket.io"
  rooms,                \* socket.io gateway: io.sockets.adapter.rooms, Map<symbol, Set<socket>>
  gatewayActiveSymbols, \* socket.io gateway: this.activeSymbols
  awaiting,             \* socket.io gateway: handleSubscribe calls suspended at `await`
  ws,                   \* connector: readyState of this.ws, or "null"
  orphans,              \* readyStates of the sockets this.ws no longer refers to and
                        \* that have not closed yet; their listeners are still attached
  activeSymbols,        \* connector: Set<string>
  subscriptionId,       \* connector: id of the next control frame
  reconnectAttempts,    \* connector
  timers,               \* pending setTimeout callbacks of reconnect(): their delays
  upFrames,             \* control frames written to the upstream socket by the last handler
  heartbeat,            \* ping and pong frames written to it by the last handler
  calls,                \* connector calls made by the gateway in the last handler
  rejected,             \* promises rejected in the last handler
  emitted,              \* events emitted by the connector in the last handler
  clientOut,            \* messages written to each client socket by the last handler
  uncaught,             \* message of the exception that escaped the last handler, or ""
  everSubscribed,       \* symbols for which a SUBSCRIBE frame has ever been written
  depthSide,            \* ladder builder: the side of a depth frame it was given
  depthKind,            \* ladder builder: "bids" or "asks" once it has run, else "none"
  depthLadder,          \* ladder builder: the side of the OrderBook it produced
  socketConnected,      \* frontend: socket.connected of the provider's socket.io socket
  pendingSubscriptions, \* frontend: pendingSubscriptions.current, a Set<string>
  socketEmitted,        \* frontend: events emitted on the socket by the last handler
  appSubscribed,        \* frontend: symbols the application has subscribed to and
                        \* not unsubscribed from since
  marketState,          \* frontend: the state held by useReducer(marketReducer)
  olderMarketState,     \* older frontend: the state held by its reducer
  tradeIds,             \* frontend: the number of trades received per symbol
  lastOp                \* the handler that ran last

vars == << subscriptions, clientSubscriptions, clientReady, clientErrored,
           gateway, rooms, gatewayActiveSymbols, awaiting,
           ws, orphans, activeSymbols, subscriptionId, reconnectAttempts,
           timers, upFrames, heartbeat, calls, rejected, emitted, clientOut,
           uncaught, everSubscribed, depthSide, depthKind, depthLadder,
           socketConnected, pendingSubscriptions, socketEmitted, appSubscribed,
           marketState, olderMarketState, tradeIds, lastOp >>

\* the variables of the ladder builder taken alone
depthVars == << depthSide, depthKind, depthLadder >>

\* the variables of the frontend, and those of the backend
frontendVars == << socketConnected, pendingSubscriptions, socketEmitted, appSubscribed,
                  marketState, olderMarketState, tradeIds >>
backendVars == << subscriptions, clientSubscriptions, clientReady, clientErrored,
                 gateway, rooms, gatewayActiveSymbols, awaiting,
                 ws, orphans, activeSymbols, subscriptionId, reconnectAttempts,
                 timers, upFrames, heartbeat, calls, rejected, emitted, clientOut,
                 uncaught, everSubscribed, depthSide, depthKind, depthLadder >>

NoOut == [c \in Clients |-> <<>>]

\* The part of the state the handlers read and write, as one record, so that
\* a handler and the calls it makes compose as functions on it.  `throwing`
\* holds the clients whose socket throws on send() during the handler,
\* `upstreamThrowing` tells whether the upstream socket's send() throws during
\* it, `exc` is the message of the exception that is propagating ("" when
\* none is).
Cur ==
  [ subscriptions       |-> subscriptions,
    clientSubscriptions |-> clientSubscriptions,
    clientReady         |-> clientReady,
    gateway             |-> gateway,
    rooms               |-> rooms,
    gatewayActiveSymbols |-> gatewayActiveSymbols,
    awaiting            |-> awaiting,
    throwing            |-> {},
    upstreamThrowing    |-> FALSE,
    exc                 |-> "",
    ws                  |-> ws,
    orphans             |-> orphans,
    activeSymbols       |-> activeSymbols,
    subscriptionId      |-> subscriptionId,
    reconnectAttempts   |-> reconnectAttempts,
    timers              |-> timers,
    upFrames            |-> <<>>,
    heartbeat           |-> <<>>,
    calls               |-> <<>>,
    rejected            |-> <<>>,
    emitted             |-> <<>>,
    clientOut           |-> NoOut ]

\* ------------------------------------------------ BinanceService (connector)
\* streams.map(stream => `${symbol.toLowerCase()}@${stream}`)
StreamNames(symbol) ==
  [i \in 1..Len(streams) |-> toLowerCase(symbol) \o "@" \o streams[i]]

ControlFrame(method, symbol, id) ==
  [method |-> method, params |-> StreamNames(symbol), id |-> id]

\* subscribe as the older connector variant rejects: another message and code
subscribe_olderRejection(st, symbol) ==
  IF st.ws = "null" \/ st.ws # "OPEN"
  THEN [st EXCEPT !.rejected = Append(@,
          AppError("WebSocket is not connected", ErrorCodes.WEBSOCKET_CONNECTION_FAILED, 500))]
  ELSE [st EXCEPT !.upFrames = Append(@, ControlFrame("SUBSCRIBE", symbol, st.subscriptionId)),
                  !.subscriptionId = @ + 1,
                  !.activeSymbols = SetAdd(@, symbol)]

\* subscribe that records the symbol before it writes the frame
subscribe_addsBeforeSend(st, symbol) ==
  IF st.ws = "null" \/ st.ws # "OPEN"
  THEN [st EXCEPT !.rejected = Append(@,
          AppError("WebSocket not connected", ErrorCodes.WEBSOCKET_CONNECTION_CLOSED, 500))]
  ELSE IF st.upstreamThrowing
  THEN [st EXCEPT !.subscriptionId = @ + 1,
                  !.activeSymbols = SetAdd(@, symbol),
                  !.rejected = Append(@,
          AppError("Failed to subscribe to market data", ErrorCodes.WEBSOCKET_SUBSCRIPTION_FAILED, 500))]
  ELSE [st EXCEPT !.upFrames = Append(@, ControlFrame("SUBSCRIBE", symbol, st.subscriptionId)),
                  !.subscriptionId = @ + 1,
                  !.activeSymbols = SetAdd(@, symbol)]

\* BinanceService.subscribe.  The frame's id is taken (`this.subscriptionId++`)
\* before send() is called, so a send() that throws has used the id up.
subscribe(st, symbol) ==
  IF st.ws = "null" \/ st.ws # "OPEN"
  THEN [st EXCEPT !.rejected = Append(@,
          AppError("WebSocket not connected", ErrorCodes.WEBSOCKET_CONNECTION_CLOSED, 500))]
  ELSE IF st.upstreamThrowing
  THEN [st EXCEPT !.subscriptionId = @ + 1,
                  !.rejected = Append(@,
          AppError("Failed to subscribe to market data", ErrorCodes.WEBSOCKET_SUBSCRIPTION_FAILED, 500))]
  ELSE [st EXCEPT !.upFrames = Append(@, ControlFrame("SUBSCRIBE", symbol, st.subscriptionId)),
                  !.subscriptionId = @ + 1,
                  !.activeSymbols = SetAdd(@, symbol)]

\* BinanceService.unsubscribe; an exception of send() is caught and logged
unsubscribe(st, symbol) ==
  IF st.ws = "null" \/ st.ws # "OPEN"
  THEN st
  ELSE IF st.upstreamThrowing
  THEN [st EXCEPT !.subscriptionId = @ + 1]
  ELSE [st EXCEPT !.upFrames = Append(@, ControlFrame("UNSUBSCRIBE", symbol, st.subscriptionId)),
                  !.subscriptionId = @ + 1,
                  !.activeSymbols = SetDelete(@, symbol)]

\* BinanceService.resubscribe: for (const symbol of this.activeSymbols) subscribe(symbol)
RECURSIVE resubscribeFrom(_, _)
resubscribeFrom(st, i) ==
  IF i > Len(st.activeSymbols) THEN st
  ELSE resubscribeFrom(subscribe(st, st.activeSymbols[i]), i + 1)

resubscribe(st) == resubscribeFrom(st, 1)

\* a 'ping' listener that answers whatever the state of the socket
onPing_answersAlways(st, data) ==
  [st EXCEPT !.heartbeat = Append(@, [frame |-> "pong", data |-> data])]

\* the 'ping' listener: if (this.ws?.readyState === WebSocket.OPEN) this.ws.pong(data)
onPing(st, data) ==
  IF st.ws # "null" /\ st.ws = "OPEN"
  THEN [st EXCEPT !.heartbeat = Append(@, [frame |-> "pong", data |-> data])]
  ELSE st

\* BinanceService.connect: this.ws = new WebSocket(url).  The socket this.ws
\* referred to is neither closed nor stripped of its listeners.
connect(st) ==
  [st EXCEPT !.orphans = IF st.ws \in {"CONNECTING", "OPEN", "CLOSING"}
                         THEN Append(@, st.ws) ELSE @,
             !.ws = "CONNECTING"]

\* BinanceService.disconnect: cleanup(); if (this.ws) { this.ws.close(); this.ws = null }
\* WebSocket.close() starts the closing handshake (or aborts the opening one);
\* the socket's 'close' event comes later
disconnect(st) ==
  IF st.ws = "null" THEN st
  ELSE [st EXCEPT !.orphans = IF st.ws = "CLOSED" THEN @ ELSE Append(@, "CLOSING"),
                  !.ws = "null"]

\* --------------------------------------------- WebSocketServer (ws gateway)
\* send that writes the message twice
send_twice(st, client, msg) ==
  IF client \in st.throwing
  THEN [st EXCEPT !.exc = "send failed"]
  ELSE [st EXCEPT !.clientOut[client] = Append(Append(@, msg), msg)]

\* client.send(JSON.stringify(msg)): the write is recorded whatever the
\* socket's readyState is; guarding it is the caller's business.  A send that
\* throws writes nothing and leaves the exception propagating.
send(st, client, msg) ==
  IF client \in st.throwing
  THEN [st EXCEPT !.exc = "send failed"]
  ELSE [st EXCEPT !.clientOut[client] = Append(@, msg)]

\* broadcastToSymbol that ignores the symbol's subscriber set
broadcastToSymbol_everyone(st, symbol, msg) ==
  [st EXCEPT !.clientOut =
     [c \in Clients |-> IF st.clientReady[c] = "OPEN"
                        THEN Append(st.clientOut[c], msg) ELSE st.clientOut[c]]]

\* broadcastToSymbol that asks the connector for the symbol again before it
\* fans the message out
broadcastToSymbol_rerequests(st, symbol, msg) ==
  IF ~MapHas(st.subscriptions, symbol) THEN st
  ELSE LET st1 == subscribe([st EXCEPT !.calls = Append(@, [method |-> "subscribe", symbol |-> symbol])],
                            symbol)
           clients == st1.subscriptions[symbol]
       IN  [st1 EXCEPT !.clientOut =
              [c \in Clients |-> IF SetHas(clients, c) /\ st1.clientReady[c] = "OPEN"
                                 THEN Append(st1.clientOut[c], msg) ELSE st1.clientOut[c]]]

\* the loop of a broadcast that writes to every client whatever its readyState
RECURSIVE broadcastFrom_anyState(_, _, _, _)
broadcastFrom_anyState(st, clients, i, msg) ==
  IF i > Len(clients) \/ st.exc # "" THEN st
  ELSE broadcastFrom_anyState(send(st, clients[i], msg), clients, i + 1, msg)

\* WebSocketServer.broadcastToSymbol
RECURSIVE broadcastFrom(_, _, _, _)
broadcastFrom(st, clients, i, msg) ==
  IF i > Len(clients) \/ st.exc # "" THEN st
  ELSE broadcastFrom(IF st.clientReady[clients[i]] = "OPEN"
                     THEN send(st, clients[i], msg) ELSE st,
                     clients, i + 1, msg)

broadcastToSymbol(st, symbol, msg) ==
  IF ~MapHas(st.subscriptions, symbol) THEN st
  ELSE broadcastFrom(st, st.subscriptions[symbol], 1, msg)

\* this.wss.clients: the sockets accepted and not yet closed, a Set in the
\* order of acceptance
WssClients(st) == SelectSeq(ClientOrder, LAMBDA c : st.clientReady[c] \in {"OPEN", "CLOSING"})

\* broadcastToAll that reaches only the clients holding a subscription
broadcastToAll_subscribersOnly(st, msg) ==
  broadcastFrom(st, SelectSeq(ClientOrder, LAMBDA c :
                      /\ MapHas(st.clientSubscriptions, c)
                      /\ st.clientSubscriptions[c] # <<>>), 1, msg)

\* WebSocketServer.broadcastToAll: this.wss.clients.forEach(...)
broadcastToAll(st, msg) == broadcastFrom(st, WssClients(st), 1, msg)

\* ------------------------------------- WebSocketServer (socket.io gateway)
\* socket.emit(event, payload)
ioEmit(st, client, event, payload) ==
  [st EXCEPT !.clientOut[client] = Append(@, [event |-> event, payload |-> payload])]

RECURSIVE ioEmitFrom(_, _, _, _, _)
ioEmitFrom(st, sockets, i, event, payload) ==
  IF i > Len(sockets) THEN st
  ELSE ioEmitFrom(ioEmit(st, sockets[i], event, payload), sockets, i + 1, event, payload)

\* this.io.to(room).emit(event, payload)
ioToRoomEmit(st, room, event, payload) ==
  IF ~MapHas(st.rooms, room) THEN st
  ELSE ioEmitFrom(st, st.rooms[room], 1, event, payload)

\* this.io.emit(event, payload): every connected socket
ioEmitAll(st, event, payload) ==
  ioEmitFrom(st, SelectSeq(ClientOrder, LAMBDA c : st.clientReady[c] = "OPEN"), 1,
             event, payload)

\* WebSocketServer.broadcastMessage
broadcastMessage(st, type, data) ==
  ioToRoomEmit(st, data.symbol, "market_data", [type |-> type, data |-> data])

\* setupWebSocket: the socket.io gateway's listeners on the connector's events
ioOnBinanceEvent(st, event, payload) ==
  CASE event \in {"trade", "depth", "ticker"} -> broadcastMessage(st, event, payload)
    [] event = "error" ->
         ioEmitAll(st, "service_error",
                   [message |-> "Market data service error",
                    code |-> IF "code" \in DOMAIN payload  \* instanceof AppError
                             THEN payload.code
                             ELSE ErrorCodes.WEBSOCKET_CONNECTION_FAILED])
    [] OTHER -> st

\* socket.join(room) and socket.leave(room); the adapter drops an empty room
join(st, client, room) ==
  [st EXCEPT !.rooms = MapSet(@, room, SetAdd(IF MapHas(@, room) THEN @[room] ELSE <<>>, client))]

leave(st, client, room) ==
  IF ~MapHas(st.rooms, room) THEN st
  ELSE IF SetDelete(st.rooms[room], client) = <<>>
       THEN [st EXCEPT !.rooms = MapDelete(@, room)]
       ELSE [st EXCEPT !.rooms[room] = SetDelete(@, client)]

\* const room = rooms.get(symbol); !room || room.size === 0
RoomEmpty(st, symbol) == ~MapHas(st.rooms, symbol) \/ Len(st.rooms[symbol]) = 0

\* the catch block of handleSubscribe: socket.emit('error', {message, code})
ioSubscribeFailed(st, client, error) ==
  ioEmit(st, client, "error", [message |-> error.message, code |-> error.code])

\* handleSubscribe of the socket.io gateway up to its `await`, or to its end
\* when it does not reach the await.  The connector's subscribe() has run by
\* then (an async function runs synchronously up to its first await, and it
\* has none); what is suspended is the rest of handleSubscribe, with the
\* promise's outcome.  The stream list the gateway passes is not looked at.
ioHandleSubscribe(st, client, symbol) ==
  IF ~TruthyStr(symbol)
  THEN ioSubscribeFailed(st, client,
         AppError("Invalid symbol provided", ErrorCodes.WEBSOCKET_SUBSCRIPTION_FAILED, 400))
  ELSE IF ~SetHas(st.gatewayActiveSymbols, symbol)
  THEN LET st1 == subscribe([st EXCEPT !.calls = Append(@, [method |-> "subscribe", symbol |-> symbol])],
                            symbol)
           failed == st1.rejected # <<>>
       IN  [st1 EXCEPT !.awaiting = Append(@,
              [client |-> client, symbol |-> symbol, rejected |-> failed,
               error |-> IF failed THEN st1.rejected[Len(st1.rejected)]
                         ELSE AppError("", "", 0)])]
  ELSE join(st, client, symbol)

\* the rest of handleSubscribe that joins the room whatever the outcome
ioHandleSubscribeResumed_joinsAnyway(st) ==
  LET h == Head(st.awaiting)
      st0 == [st EXCEPT !.awaiting = Tail(@)]
  IN  join([IF h.rejected THEN ioSubscribeFailed(st0, h.client, h.error) ELSE st0
              EXCEPT !.gatewayActiveSymbols = SetAdd(@, h.symbol)],
           h.client, h.symbol)

\* the rest of handleSubscribe, run when the awaited promise has settled:
\* continuations run in the order in which they were suspended
ioHandleSubscribeResumed(st) ==
  LET h == Head(st.awaiting)
      st0 == [st EXCEPT !.awaiting = Tail(@)]
  IN  IF h.rejected
      THEN ioSubscribeFailed(st0, h.client, h.error)
      ELSE join([st0 EXCEPT !.gatewayActiveSymbols = SetAdd(@, h.symbol)], h.client, h.symbol)

\* handleUnsubscribe of the socket.io gateway
ioHandleUnsubscribe(st, client, symbol) ==
  LET st1 == leave(st, client, symbol)
  IN  IF RoomEmpty(st1, symbol)
      THEN [unsubscribe([st1 EXCEPT !.calls = Append(@, [method |-> "unsubscribe", symbol |-> symbol])],
                        symbol)
              EXCEPT !.gatewayActiveSymbols = SetDelete(@, symbol)]
      ELSE st1

\* WebSocketServer.cleanupSubscriptions: for (const symbol of this.activeSymbols)
RECURSIVE cleanupFrom(_, _, _)
cleanupFrom(st, symbols, i) ==
  IF i > Len(symbols) THEN st
  ELSE cleanupFrom(
         IF RoomEmpty(st, symbols[i])
         THEN [unsubscribe([st EXCEPT !.calls = Append(@, [method |-> "unsubscribe", symbol |-> symbols[i]])],
                           symbols[i])
                 EXCEPT !.gatewayActiveSymbols = SetDelete(@, symbols[i])]
         ELSE st,
         symbols, i + 1)

cleanupSubscriptions(st) == cleanupFrom(st, st.gatewayActiveSymbols, 1)

\* socket.leaveAll(), which socket.io runs before it emits 'disconnect'
RECURSIVE leaveAllFrom(_, _, _)
leaveAllFrom(st, client, symbols) ==
  IF symbols = <<>> THEN st
  ELSE leaveAllFrom(leave(st, client, Head(symbols)), client, Tail(symbols))

\* handleDisconnect of the socket.io gateway
ioHandleDisconnect(st, client) == cleanupSubscriptions(st)

\* setupBinanceHandlers: the gateway's listeners on the connector's events
OnBinanceEvent(st, event, payload) ==
  CASE st.gateway = "socket.io" -> ioOnBinanceEvent(st, event, payload)
    [] event = "trade" ->
         broadcastToSymbol(st, payload.symbol, [type |-> "trade", data |-> payload])
    [] event = "depth" ->
         broadcastToSymbol(st, payload.symbol, [type |-> "depth20", data |-> payload])
    [] event = "ticker" ->
         broadcastToSymbol(st, payload.symbol, [type |-> "ticker", data |-> payload])
    [] event = "error" ->
         broadcastToAll(st, [type |-> "error",
                             data |-> [message |-> "Market data service error",
                                       code |-> IF "code" \in DOMAIN payload  \* instanceof AppError
                                                THEN payload.code
                                                ELSE ErrorCodes.WEBSOCKET_CONNECTION_FAILED]])
    [] OTHER -> st

\* EventEmitter.emit on the connector: listeners run synchronously
emit(st, event, payload) ==
  OnBinanceEvent([st EXCEPT !.emitted = Append(@, [event |-> event, payload |-> payload])],
                 event, payload)

\* reconnect that neither counts the attempt nor ever gives up
reconnect_uncounted(st) ==
  [st EXCEPT !.timers = Append(@, reconnectDelay)]

\* reconnect that waits the base delay every time, as the older connector did
reconnect_constantDelay(st) ==
  IF st.reconnectAttempts >= maxReconnectAttempts
  THEN emit(st, "error", AppError("Failed to reconnect to market data service",
                                  ErrorCodes.WEBSOCKET_CONNECTION_FAILED, 500))
  ELSE [st EXCEPT !.reconnectAttempts = @ + 1,
                  !.timers = Append(@, reconnectDelay)]

\* reconnect that counts the close that finds the attempts used up as well
reconnect_countsPastMax(st) ==
  IF st.reconnectAttempts >= maxReconnectAttempts
  THEN emit([st EXCEPT !.reconnectAttempts = @ + 1], "error",
            AppError("Failed to reconnect to market data service",
                     ErrorCodes.WEBSOCKET_CONNECTION_FAILED, 500))
  ELSE [st EXCEPT !.reconnectAttempts = @ + 1,
                  !.timers = Append(@, reconnectDelay * Pow2(st.reconnectAttempts))]

\* BinanceService.reconnect
reconnect(st) ==
  IF st.reconnectAttempts >= maxReconnectAttempts
  THEN emit(st, "error", AppError("Failed to reconnect to market data service",
                                  ErrorCodes.WEBSOCKET_CONNECTION_FAILED, 500))
  ELSE [st EXCEPT !.reconnectAttempts = @ + 1,
                  !.timers = Append(@, reconnectDelay * Pow2(st.reconnectAttempts))]

\* BinanceService.handleTradeMessage; the result is the state, or the thrown Error
handleTradeMessage(st, message) ==
  IF ~TruthyStr(message.s) \/ ~TruthyStr(message.p) \/ ~TruthyStr(message.q)
     \/ ~TruthyNum(message.T) \/ ~TruthyNum(message.t)
  THEN [thrown |-> "Missing required fields in trade message", st |-> st]
  ELSE [thrown |-> "",
        st |-> emit(st, "trade",
                    [symbol |-> message.s, price |-> message.p, quantity |-> message.q,
                     timestamp |-> message.T, tradeId |-> message.t,
                     isBuyerMaker |-> message.m])]

\* ------------------------------------------------------------ depth ladder
\* Numbers are held as multiples of 0.5 (n stands for n/2): the decimal
\* strings of the model are all such multiples, and IEEE doubles add and
\* compare them exactly.  NaN is what parseFloat gives for text that does not
\* start with a number.
NaN == -1000000000

parseFloat(str) ==
  CASE str = "0"     -> 0
    [] str = "1"     -> 2
    [] str = "1.5"   -> 3
    [] str = "2"     -> 4
    [] str = "2.5"   -> 5
    [] str = "-1"    -> -2
    [] str = "49900" -> 99800
    [] str = "50000" -> 100000
    [] str = "50100" -> 100200
    [] str = "50200" -> 100400
    [] OTHER -> NaN

\* a + b and a - b on doubles
Plus(a, b) == IF a = NaN \/ b = NaN THEN NaN ELSE a + b
Minus(a, b) == IF a = NaN \/ b = NaN THEN NaN ELSE a - b

\* ([price, quantity]) => [parseFloat(price), parseFloat(quantity)]
parseDepthFloats(level) == << parseFloat(level[1]), parseFloat(level[2]) >>

\* (a, b) => a[0] - b[0]   and   (a, b) => b[0] - a[0]
sortDepthAsc(a, b) == Minus(a[1], b[1])
sortDepthDesc(a, b) == Minus(b[1], a[1])

\* Array.prototype.sort(comparefn): stable; b goes before a only when
\* comparefn(a, b) > 0 (a NaN result counts as +0).  Insertion sort does that.
\* `desc` selects the comparator: sortDepthDesc or sortDepthAsc.
comparefn(desc, a, b) == IF desc THEN sortDepthDesc(a, b) ELSE sortDepthAsc(a, b)

Greater(desc, a, b) == comparefn(desc, a, b) # NaN /\ comparefn(desc, a, b) > 0

RECURSIVE insertSorted(_, _, _)
insertSorted(desc, sorted, x) ==
  IF sorted = <<>> THEN << x >>
  ELSE LET last == sorted[Len(sorted)]
       IN  IF Greater(desc, last, x)
           THEN Append(insertSorted(desc, SubSeq(sorted, 1, Len(sorted) - 1), x), last)
           ELSE Append(sorted, x)

RECURSIVE sortFrom(_, _, _, _)
sortFrom(desc, array, i, sorted) ==
  IF i > Len(array) THEN sorted
  ELSE sortFrom(desc, array, i + 1, insertSorted(desc, sorted, array[i]))

sort(array, desc) == sortFrom(desc, array, 1, <<>>)

\* What array.sort(comparefn) may return.  When every price is a number the
\* comparator is consistent and the result is the stable sort above.  With a
\* NaN price the comparator is not consistent, and ECMAScript leaves the
\* resulting order to the implementation: any permutation of the array.
sortOutcomes(array, desc) ==
  IF \A i \in 1..Len(array) : array[i][1] # NaN
  THEN {sort(array, desc)}
  ELSE {[i \in 1..Len(array) |-> array[f[i]]] : f \in Permutations(1..Len(array))}

\* reduceDepthWithTotal that does not accumulate: total = quantity
reduceDepthWithTotal_levelOnly(acc, level) ==
  Append(acc, << level[1], level[2], level[2] >>)

\* reduceDepthWithTotal that drops the levels of size zero
reduceDepthWithTotal_skipsZero(acc, level) ==
  IF level[2] = 0 THEN acc
  ELSE Append(acc, << level[1], level[2],
                      Plus(IF Len(acc) > 0 THEN acc[Len(acc)][3] ELSE 0, level[2]) >>)

\* (acc, [price, quantity]) => { total = (last total or 0) + quantity; push }
reduceDepthWithTotal(acc, level) ==
  LET total == Plus(IF Len(acc) > 0 THEN acc[Len(acc)][3] ELSE 0, level[2])
  IN  Append(acc, << level[1], level[2], total >>)

\* array.reduce(reduceDepthWithTotal, [])
RECURSIVE reduceFrom(_, _, _)
reduceFrom(array, i, acc) ==
  IF i > Len(array) THEN acc
  ELSE reduceFrom(array, i + 1, reduceDepthWithTotal(acc, array[i]))

\* array.map(parseDepthFloats)
mapParseDepthFloats(array) == [i \in 1..Len(array) |-> parseDepthFloats(array[i])]

\* message.bids.map(parseDepthFloats).sort(sortDepthDesc).reduce(reduceDepthWithTotal, [])
bidsLadder(bids) == reduceFrom(sort(mapParseDepthFloats(bids), TRUE), 1, <<>>)
asksLadder(asks) == reduceFrom(sort(mapParseDepthFloats(asks), FALSE), 1, <<>>)

\* BinanceService.handleDepthMessage; the result is the state, or the thrown Error
handleDepthMessage(st, message) ==
  IF ~TruthyStr(message.symbol) \/ ~message.bidsIsArray \/ ~message.asksIsArray
  THEN [thrown |-> "Missing required fields in depth message", st |-> st]
  ELSE [thrown |-> "",
        st |-> emit(st, "depth",
                    [symbol |-> message.symbol,
                     bids |-> bidsLadder(message.bids),
                     asks |-> asksLadder(message.asks)])]

\* BinanceService.handleTickerMessage
handleTickerMessage(st, message) ==
  IF ~TruthyStr(message.s) \/ ~TruthyStr(message.c) \/ ~TruthyStr(message.P)
     \/ ~TruthyStr(message.o) \/ ~TruthyStr(message.h) \/ ~TruthyStr(message.l)
     \/ ~TruthyStr(message.v) \/ ~TruthyStr(message.q)
  THEN [thrown |-> "Missing required fields in ticker message", st |-> st]
  ELSE [thrown |-> "",
        st |-> emit(st, "ticker",
                    [symbol |-> message.s, lastPrice |-> message.c,
                     priceChange |-> message.p, priceChangePercent |-> message.P,
                     openPrice |-> message.o, highPrice |-> message.h,
                     lowPrice |-> message.l, volume |-> message.v,
                     quoteVolume |-> message.q])]

\* the two branches of handleMessage's catch block; an exception thrown by an
\* event listener inside the try block arrives here as well
catchSyntaxError(st) ==
  emit([st EXCEPT !.exc = ""], "error",
       AppError("Invalid market data received", ErrorCodes.INVALID_MARKET_DATA, 500))

catchOther(st) ==
  emit([st EXCEPT !.exc = ""], "error",
       AppError("Invalid market data received", ErrorCodes.INVALID_MARKET_DATA, 500))

\* handleMessage that treats an invalid frame as fatal: it reports the error
\* and closes the transport
handleMessage_closesOnInvalid(st, frame) ==
  IF ~frame.json THEN [catchSyntaxError(st) EXCEPT !.ws = "CLOSING"]
  ELSE IF frame.hasResult THEN st                  \* reply to a control frame
  ELSE IF ~frame.hasStream \/ ~frame.hasData THEN [catchOther(st) EXCEPT !.ws = "CLOSING"]
  ELSE LET r == CASE frame.eventType = "trade" -> handleTradeMessage(st, frame.data)
                   [] frame.eventType = "depth20" ->
                        handleDepthMessage(st, [symbol |-> toUpperCase(frame.symbol),
                                                bids |-> frame.data.bids,
                                                asks |-> frame.data.asks,
                                                bidsIsArray |-> frame.data.bidsIsArray,
                                                asksIsArray |-> frame.data.asksIsArray])
                   [] frame.eventType = "ticker" -> handleTickerMessage(st, frame.data)
                   [] OTHER -> [thrown |-> "", st |-> st]   \* 'Ignoring message type'
       IN  IF r.thrown # "" \/ r.st.exc # "" THEN [catchOther(r.st) EXCEPT !.ws = "CLOSING"] ELSE r.st

\* BinanceService.handleMessage (the 'message' listener of the upstream socket)
handleMessage(st, frame) ==
  IF ~frame.json THEN catchSyntaxError(st)
  ELSE IF frame.hasResult THEN st                  \* reply to a control frame
  ELSE IF ~frame.hasStream \/ ~frame.hasData THEN catchOther(st)
  ELSE LET r == CASE frame.eventType = "trade" -> handleTradeMessage(st, frame.data)
                   [] frame.eventType = "depth20" ->
                        handleDepthMessage(st, [symbol |-> toUpperCase(frame.symbol),
                                                bids |-> frame.data.bids,
                                                asks |-> frame.data.asks,
                                                bidsIsArray |-> frame.data.bidsIsArray,
                                                asksIsArray |-> frame.data.asksIsArray])
                   [] frame.eventType = "ticker" -> handleTickerMessage(st, frame.data)
                   [] OTHER -> [thrown |-> "", st |-> st]   \* 'Ignoring message type'
       IN  IF r.thrown # "" \/ r.st.exc # "" THEN catchOther(r.st) ELSE r.st

\* handleSubscribe that subscribes upstream for every client new to the symbol
handleSubscribe_perClient(st, client, symbol) ==
  IF ~TruthyStr(symbol)
  THEN send(st, client, [type |-> "error", message |-> "Symbol is required"])
  ELSE LET st0 == IF ~MapHas(st.subscriptions, symbol)
                  THEN [st EXCEPT !.subscriptions = MapSet(@, symbol, <<>>)]
                  ELSE st
           st1 == IF ~SetHas(st0.subscriptions[symbol], client)
                  THEN subscribe([st0 EXCEPT !.calls = Append(@, [method |-> "subscribe", symbol |-> symbol])],
                                 symbol)
                  ELSE st0
           st2 == [st1 EXCEPT !.subscriptions[symbol] = SetAdd(@, client)]
       IN  IF MapHas(st2.clientSubscriptions, client)
           THEN [st2 EXCEPT !.clientSubscriptions[client] = SetAdd(@, symbol)]
           ELSE st2

\* WebSocketServer.handleSubscribe
handleSubscribe(st, client, symbol) ==
  IF ~TruthyStr(symbol)
  THEN send(st, client, [type |-> "error", message |-> "Symbol is required"])
  ELSE LET st1 == IF ~MapHas(st.subscriptions, symbol)
                  THEN subscribe([st EXCEPT !.subscriptions = MapSet(@, symbol, <<>>),
                                            !.calls = Append(@, [method |-> "subscribe", symbol |-> symbol])],
                                 symbol)
                  ELSE st
           st2 == [st1 EXCEPT !.subscriptions[symbol] = SetAdd(@, client)]
       IN  IF MapHas(st2.clientSubscriptions, client)
           THEN [st2 EXCEPT !.clientSubscriptions[client] = SetAdd(@, symbol)]
           ELSE st2

\* dropInterest that unsubscribes upstream when the last client leaves but
\* keeps the symbol's empty entry
dropInterest_keepsEmptyEntry(st, client, symbol) ==
  LET st1 == IF MapHas(st.subscriptions, symbol)
             THEN [st EXCEPT !.subscriptions[symbol] = SetDelete(@, client)]
             ELSE st
  IN  IF MapHas(st1.subscriptions, symbol) /\ Len(st1.subscriptions[symbol]) = 0
         /\ st.subscriptions[symbol] # <<>>
      THEN unsubscribe([st1 EXCEPT !.calls = Append(@, [method |-> "unsubscribe", symbol |-> symbol])],
                       symbol)
      ELSE st1

\* the body shared by handleUnsubscribe and the loop of handleClientDisconnect:
\*   this.subscriptions.get(symbol)?.delete(client);
\*   if (this.subscriptions.get(symbol)?.size === 0) { delete; unsubscribe }
dropInterest(st, client, symbol) ==
  LET st1 == IF MapHas(st.subscriptions, symbol)
             THEN [st EXCEPT !.subscriptions[symbol] = SetDelete(@, client)]
             ELSE st
  IN  IF MapHas(st1.subscriptions, symbol) /\ Len(st1.subscriptions[symbol]) = 0
      THEN unsubscribe([st1 EXCEPT !.subscriptions = MapDelete(@, symbol),
                                   !.calls = Append(@, [method |-> "unsubscribe", symbol |-> symbol])],
                       symbol)
      ELSE st1

\* WebSocketServer.handleUnsubscribe
handleUnsubscribe(st, client, symbol) ==
  IF ~TruthyStr(symbol) THEN st
  ELSE LET st1 == dropInterest(st, client, symbol)
       IN  IF MapHas(st1.clientSubscriptions, client)
           THEN [st1 EXCEPT !.clientSubscriptions[client] = SetDelete(@, symbol)]
           ELSE st1

\* handleClientDisconnect that unsubscribes upstream every symbol the client
\* held, whether or not another client still holds it
RECURSIVE disconnectAllFrom(_, _, _, _)
disconnectAllFrom(st, client, clientSubs, i) ==
  IF i > Len(clientSubs) THEN st
  ELSE LET symbol == clientSubs[i]
           st1 == IF MapHas(st.subscriptions, symbol)
                  THEN [st EXCEPT !.subscriptions[symbol] = SetDelete(@, client)]
                  ELSE st
           st2 == IF MapHas(st1.subscriptions, symbol) /\ Len(st1.subscriptions[symbol]) = 0
                  THEN [st1 EXCEPT !.subscriptions = MapDelete(@, symbol)]
                  ELSE st1
       IN  disconnectAllFrom(
             unsubscribe([st2 EXCEPT !.calls = Append(@, [method |-> "unsubscribe", symbol |-> symbol])],
                         symbol),
             client, clientSubs, i + 1)

handleClientDisconnect_unsubscribesAll(st, client) ==
  LET st1 == IF MapHas(st.clientSubscriptions, client)
             THEN disconnectAllFrom(st, client, st.clientSubscriptions[client], 1)
             ELSE st
  IN  [st1 EXCEPT !.clientSubscriptions = MapDelete(@, client)]

\* handleClientDisconnect that keeps the client's record and, like
\* cleanupSubscriptions of the socket.io gateway, unsubscribes when the symbol
\* has no entry or an empty one
RECURSIVE disconnectKeepingFrom(_, _, _, _)
disconnectKeepingFrom(st, client, clientSubs, i) ==
  IF i > Len(clientSubs) THEN st
  ELSE LET symbol == clientSubs[i]
           st1 == IF MapHas(st.subscriptions, symbol)
                  THEN [st EXCEPT !.subscriptions[symbol] = SetDelete(@, client)]
                  ELSE st
           st2 == IF ~MapHas(st1.subscriptions, symbol) \/ Len(st1.subscriptions[symbol]) = 0
                  THEN unsubscribe([st1 EXCEPT !.subscriptions = MapDelete(@, symbol),
                                               !.calls = Append(@, [method |-> "unsubscribe", symbol |-> symbol])],
                                   symbol)
                  ELSE st1
       IN  disconnectKeepingFrom(st2, client, clientSubs, i + 1)

handleClientDisconnect_keepsRecord(st, client) ==
  IF MapHas(st.clientSubscriptions, client)
  THEN disconnectKeepingFrom(st, client, st.clientSubscriptions[client], 1)
  ELSE st

\* handleClientDisconnect that forgets the client's record and leaves the
\* subscriber sets alone
handleClientDisconnect_recordOnly(st, client) ==
  [st EXCEPT !.clientSubscriptions = MapDelete(@, client)]

\* WebSocketServer.handleClientDisconnect
RECURSIVE disconnectFrom(_, _, _, _)
disconnectFrom(st, client, clientSubs, i) ==
  IF i > Len(clientSubs) THEN st
  ELSE disconnectFrom(dropInterest(st, client, clientSubs[i]), client, clientSubs, i + 1)

handleClientDisconnect(st, client) ==
  LET st1 == IF MapHas(st.clientSubscriptions, client)
             THEN disconnectFrom(st, client, st.clientSubscriptions[client], 1)
             ELSE st
  IN  [st1 EXCEPT !.clientSubscriptions = MapDelete(@, client)]

\* WebSocketServer.handleMessage
gatewayHandleMessage(st, client, message) ==
  CASE message.type = "subscribe"   -> handleSubscribe(st, client, message.symbol)
    [] message.type = "unsubscribe" -> handleUnsubscribe(st, client, message.symbol)
    [] OTHER -> send(st, client, [type |-> "error", message |-> "Unknown message type"])

\* ws.on('message') of a client socket
onClientMessage(st, client, raw) ==
  LET invalid(s) == send([s EXCEPT !.exc = ""], client,
                         [type |-> "error", message |-> "Invalid message format"])
  IN  IF ~raw.json THEN invalid(st)
      ELSE LET r == gatewayHandleMessage(st, client, raw)
           IN  IF r.exc # "" THEN invalid(r) ELSE r

\* ------------------------------------------------------------------ inputs
\* what a client may send: JSON with a type and a symbol (either may be
\* missing or the symbol empty), or text that is not JSON
ClientSymbols == Symbols \cup {"", Undefined}
ClientMessages ==
  [json : {TRUE}, type : {"subscribe"}, symbol : ClientSymbols]
  \cup [json : {TRUE}, type : {"unsubscribe"}, symbol : Symbols \cup {Undefined}]
  \cup [json : {TRUE}, type : {"ping", Undefined}, symbol : {Undefined}]
  \cup [json : {FALSE}, type : {Undefined}, symbol : {Undefined}]

\* what the exchange may send on the combined stream: a frame is
\* {stream: `${symbol}@${eventType}`, data}, a reply {result, id}, or not JSON
NoData == [s |-> Undefined, p |-> Undefined, q |-> Undefined, T |-> NoNumber, t |-> NoNumber, m |-> FALSE]
TradeData ==
  [s : Symbols, p : {"50000"}, q : {"1"}, T : {123456789}, t : {12345}, m : {TRUE}]
  \cup [s : {"BTCUSDT"}, p : {Undefined}, q : {"1"}, T : {123456789}, t : {12345}, m : {TRUE}]
  \cup [s : {"ETHUSDT"}, p : {"50000"}, q : {"1"}, T : {123456789}, t : {0}, m : {TRUE}]
DepthData ==
  { [bids |-> << <<"49900", "2">>, <<"50000", "1">> >>, bidsIsArray |-> TRUE,
     asks |-> << <<"50100", "1.5">>, <<"50200", "2.5">> >>, asksIsArray |-> TRUE],
    [bids |-> << <<"50000", "1">> >>, bidsIsArray |-> TRUE,
     asks |-> <<>>, asksIsArray |-> FALSE] }
TickerData ==
  [s : {"ETHUSDT"}, c : {"50000", Undefined}, p : {Undefined}, P : {"2"}, o : {"49000"},
   h : {"51000"}, l : {"48000"}, v : {"100"}, q : {"5000000"}]
DataFrame(symbol, eventType, data) ==
  [json |-> TRUE, hasResult |-> FALSE, hasStream |-> TRUE, hasData |-> TRUE,
   symbol |-> symbol, eventType |-> eventType, data |-> data]
UpstreamFrames ==
  {DataFrame(toLowerCase(d.s), "trade", d) : d \in TradeData}
  \cup {DataFrame("btcusdt", "depth20", d) : d \in DepthData}
  \cup {DataFrame(toLowerCase(d.s), "ticker", d) : d \in TickerData}
  \cup {DataFrame("btcusdt", "kline", NoData)}
  \cup {[DataFrame("btcusdt", "trade", NoData) EXCEPT !.hasData = FALSE]}
  \cup {[DataFrame(Undefined, Undefined, NoData) EXCEPT !.hasStream = FALSE]}
  \cup {[DataFrame(Undefined, Undefined, NoData) EXCEPT
           !.hasResult = TRUE, !.hasStream = FALSE, !.hasData = FALSE]}
  \cup {[DataFrame(Undefined, Undefined, NoData) EXCEPT
           !.json = FALSE, !.hasStream = FALSE, !.hasData = FALSE]}

\* depth frames with a field that is not a number: a size, a price, the only
\* level of a side or one of two
UnparsedDepthData ==
  { [bids |-> << <<"50000", "abc">> >>, bidsIsArray |-> TRUE,
     asks |-> << <<"50100", "1">> >>, asksIsArray |-> TRUE],
    [bids |-> << <<"50000", "1">> >>, bidsIsArray |-> TRUE,
     asks |-> << <<"abc", "1">> >>, asksIsArray |-> TRUE],
    [bids |-> << <<"49900", "2">>, <<"50000", "abc">> >>, bidsIsArray |-> TRUE,
     asks |-> <<>>, asksIsArray |-> TRUE] }

\* what the exchange may send to the connector taken alone
ConnectorFrames ==
  UpstreamFrames \cup {DataFrame("btcusdt", "depth20", d) : d \in UnparsedDepthData}

\* the payload of a ping frame
PingPayloads == {"", "test-ping-data"}

\* which sends throw while one upstream frame is handled: none, or those to
\* one client
Throwing == {{}} \cup {{c} : c \in Clients}

\* ----------------------------------------------------------------- actions
\* symbols named by the SUBSCRIBE frames of a handler
SubscribedBy(frames) ==
  {s \in Symbols : \E i \in 1..Len(frames) :
      frames[i].method = "SUBSCRIBE" /\ frames[i].params = StreamNames(s)}

\* commit the result of a handler
Commit(st, op) ==
  /\ st.subscriptionId <= MaxSubscriptionId
  /\ subscriptions' = st.subscriptions
  /\ clientSubscriptions' = st.clientSubscriptions
  /\ clientReady' = st.clientReady
  /\ gateway' = st.gateway
  /\ rooms' = st.rooms
  /\ gatewayActiveSymbols' = st.gatewayActiveSymbols
  /\ awaiting' = st.awaiting
  /\ uncaught' = st.exc
  /\ ws' = st.ws
  /\ orphans' = st.orphans
  /\ activeSymbols' = st.activeSymbols
  /\ subscriptionId' = st.subscriptionId
  /\ reconnectAttempts' = st.reconnectAttempts
  /\ timers' = st.timers
  /\ upFrames' = st.upFrames
  /\ heartbeat' = st.heartbeat
  /\ calls' = st.calls
  /\ rejected' = st.rejected
  /\ emitted' = st.emitted
  /\ clientOut' = st.clientOut
  /\ everSubscribed' = everSubscribed \cup SubscribedBy(st.upFrames)
  /\ UNCHANGED depthVars
  /\ UNCHANGED frontendVars
  /\ lastOp' = op

\* lastOp: the handler; for 'error' and 'close' of a client socket also the
\* client, the symbols it held when the handler started and (for 'close')
\* whether the socket's 'error' handler had run before
Op(name, client) == [op |-> name, client |-> client, held |-> <<>>, afterError |-> FALSE]
Held(c) == IF MapHas(clientSubscriptions, c) THEN clientSubscriptions[c] ELSE <<>>

\* the relay after `new WebSocketServer(server)`: the constructor has called
\* binanceService.connect(), so the upstream socket is CONNECTING.
InitRelay ==
  /\ subscriptions = EmptyMap
  /\ clientSubscriptions = EmptyMap
  /\ clientReady = [c \in Clients |-> "NONE"]
  /\ clientErrored = [c \in Clients |-> FALSE]
  /\ rooms = EmptyMap
  /\ gatewayActiveSymbols = <<>>
  /\ awaiting = <<>>
  /\ uncaught = ""
  /\ ws = "CONNECTING"
  /\ orphans = <<>>
  /\ activeSymbols = <<>>
  /\ subscriptionId = 1
  /\ reconnectAttempts = 0
  /\ timers = <<>>
  /\ upFrames = <<>>
  /\ heartbeat = <<>>
  /\ calls = <<>>
  /\ rejected = <<>>
  /\ emitted = <<>>
  /\ clientOut = NoOut
  /\ everSubscribed = {}
  /\ socketConnected = FALSE
  /\ pendingSubscriptions = <<>>
  /\ socketEmitted = <<>>
  /\ appSubscribed = {}
  /\ marketState = initialState
  /\ olderMarketState = olderInitialState
  /\ tradeIds = [s \in Symbols |-> 0]
  /\ lastOp = Op("constructor", "none")

Init ==
  /\ InitRelay
  /\ gateway = "ws"
  /\ depthSide = <<>>
  /\ depthKind = "none"
  /\ depthLadder = <<>>

\* wss.on('connection')
ClientConnect(c) ==
  /\ clientReady[c] = "NONE"
  /\ \A i \in 1..Len(ClientOrder) :
       ClientOrder[i] = c => \A j \in 1..(i - 1) : clientReady[ClientOrder[j]] # "NONE"
  /\ UNCHANGED clientErrored
  /\ Commit([Cur EXCEPT !.clientReady[c] = "OPEN",
                        !.clientSubscriptions = MapSet(@, c, <<>>)],
            Op("connection", "none"))

\* ws.on('message') of client c
ClientMessage(c, raw) ==
  /\ clientReady[c] = "OPEN"
  /\ UNCHANGED clientErrored
  /\ Commit(onClientMessage(Cur, c, raw), Op("message", "none"))

\* the peer's close frame arrives or its TCP stream ends: the ws library
\* moves the socket to CLOSING; no listener of the gateway runs
ClientClosing(c) ==
  /\ clientReady[c] = "OPEN"
  /\ UNCHANGED clientErrored
  /\ Commit([Cur EXCEPT !.clientReady[c] = "CLOSING"], Op("closing", "none"))

\* ws.on('error') of client c: the library has left OPEN before it emits
ClientError(c) ==
  /\ clientReady[c] \in {"OPEN", "CLOSING"}
  /\ ~clientErrored[c]
  /\ clientErrored' = [clientErrored EXCEPT ![c] = TRUE]
  /\ Commit(handleClientDisconnect([Cur EXCEPT !.clientReady[c] = "CLOSING"], c),
            [Op("error", c) EXCEPT !.held = Held(c)])

\* ws.on('close') of client c
ClientClose(c) ==
  /\ clientReady[c] \in {"OPEN", "CLOSING"}
  /\ clientErrored' = [clientErrored EXCEPT ![c] = FALSE]
  /\ Commit(handleClientDisconnect([Cur EXCEPT !.clientReady[c] = "CLOSED"], c),
            [Op("close", c) EXCEPT !.held = Held(c), !.afterError = clientErrored[c]])

\* this.ws.on('open')
UpstreamOpen ==
  /\ ws = "CONNECTING"
  /\ UNCHANGED clientErrored
  /\ Commit(resubscribe([Cur EXCEPT !.ws = "OPEN", !.reconnectAttempts = 0]),
            Op("upstream open", "none"))

\* this.ws.on('message'); `throwing` are the clients whose send() throws
\* while the frame is handled
UpstreamMessage(frame, throwing) ==
  /\ ws = "OPEN"
  /\ \A c \in throwing : clientReady[c] = "OPEN"
  /\ UNCHANGED clientErrored
  /\ Commit(handleMessage([Cur EXCEPT !.throwing = throwing], frame),
            Op("upstream message", "none"))

\* this.ws.on('ping'): the exchange's ping arrives while the socket is OPEN,
\* or CLOSING with the exchange's close frame still outstanding
UpstreamPing(data) ==
  /\ ws \in {"OPEN", "CLOSING"}
  /\ UNCHANGED clientErrored
  /\ Commit(onPing(Cur, data), Op("upstream ping", "none"))

\* this.ws.on('error'): a failed handshake or a transport error; the library
\* leaves CONNECTING/OPEN before it emits, and 'close' follows
UpstreamError ==
  /\ ws \in {"CONNECTING", "OPEN"}
  /\ UNCHANGED clientErrored
  /\ Commit(emit([Cur EXCEPT !.ws = "CLOSING"], "error",
                 AppError("WebSocket connection error",
                          ErrorCodes.WEBSOCKET_CONNECTION_FAILED, 500)),
            Op("upstream error", "none"))

\* the exchange starts the closing handshake; no listener runs
UpstreamClosing ==
  /\ ws = "OPEN"
  /\ UNCHANGED clientErrored
  /\ Commit([Cur EXCEPT !.ws = "CLOSING"], Op("upstream closing", "none"))

\* this.ws.on('close'): cleanup(); reconnect()
UpstreamClose ==
  /\ ws \in {"OPEN", "CLOSING"}
  /\ UNCHANGED clientErrored
  /\ Commit(reconnect([Cur EXCEPT !.ws = "CLOSED"]), Op("upstream close", "none"))

\* the setTimeout callback of reconnect(): connect()
ReconnectTimer ==
  /\ timers # <<>>
  /\ UNCHANGED clientErrored
  /\ Commit(connect([Cur EXCEPT !.timers = Tail(@)]), Op("reconnect timer", "none"))

Next ==
  \/ \E c \in Clients : ClientConnect(c)
  \/ \E c \in Clients, raw \in ClientMessages : ClientMessage(c, raw)
  \/ \E c \in Clients : ClientClosing(c)
  \/ \E c \in Clients : ClientError(c)
  \/ \E c \in Clients : ClientClose(c)
  \/ UpstreamOpen
  \/ \E frame \in UpstreamFrames, throwing \in Throwing : UpstreamMessage(frame, throwing)
  \/ \E data \in PingPayloads : UpstreamPing(data)
  \/ UpstreamError
  \/ UpstreamClosing
  \/ UpstreamClose
  \/ ReconnectTimer

Spec == Init /\ [][Next]_vars

\* ------------------------------------------- the connector driven by its owner
\* BinanceService on its own: besides the events of the socket this.ws refers
\* to, its owner calls connect() and disconnect(), and sockets created by
\* earlier connect() calls deliver their events to the same listeners.
RemoveAt(seq, i) == SubSeq(seq, 1, i - 1) \o SubSeq(seq, i + 1, Len(seq))

\* sockets and timers in existence
NumUpstream ==
  (IF ws \in {"CONNECTING", "OPEN", "CLOSING"} THEN 1 ELSE 0) + Len(orphans) + Len(timers)

\* connect() called by the owner, who holds no connection at the time
ApiConnect ==
  /\ ws \in {"null", "CLOSED"}
  /\ NumUpstream < MaxSockets
  /\ UNCHANGED clientErrored
  /\ Commit(connect(Cur), Op("connect", "none"))

\* disconnect() called by the owner
ApiDisconnect ==
  /\ ws # "null"
  /\ UNCHANGED clientErrored
  /\ Commit(disconnect(Cur), Op("disconnect", "none"))

\* subscribe() and unsubscribe() called by the owner; `throws` tells whether
\* the socket's send() throws
ApiSubscribe(symbol, throws) ==
  /\ UNCHANGED clientErrored
  /\ Commit(subscribe([Cur EXCEPT !.upstreamThrowing = throws], symbol),
            [Op("subscribe", "none") EXCEPT !.held = << symbol >>])

ApiUnsubscribe(symbol, throws) ==
  /\ UNCHANGED clientErrored
  /\ Commit(unsubscribe([Cur EXCEPT !.upstreamThrowing = throws], symbol),
            [Op("unsubscribe", "none") EXCEPT !.held = << symbol >>])

\* 'open' of a socket this.ws no longer refers to: the same listener runs
OrphanOpen(i) ==
  /\ orphans[i] = "CONNECTING"
  /\ UNCHANGED clientErrored
  /\ Commit(resubscribe([Cur EXCEPT !.orphans[i] = "OPEN", !.reconnectAttempts = 0]),
            Op("orphan open", "none"))

\* 'error' of such a socket
OrphanError(i) ==
  /\ orphans[i] \in {"CONNECTING", "OPEN"}
  /\ UNCHANGED clientErrored
  /\ Commit(emit([Cur EXCEPT !.orphans[i] = "CLOSING"], "error",
                 AppError("WebSocket connection error",
                          ErrorCodes.WEBSOCKET_CONNECTION_FAILED, 500)),
            Op("orphan error", "none"))

\* 'close' of such a socket: cleanup(); reconnect()
OrphanClose(i) ==
  /\ orphans[i] \in {"OPEN", "CLOSING"}
  /\ UNCHANGED clientErrored
  /\ Commit(reconnect([Cur EXCEPT !.orphans = RemoveAt(@, i)]), Op("orphan close", "none"))

\* 'message' of such a socket
OrphanMessage(i, frame) ==
  /\ orphans[i] = "OPEN"
  /\ UNCHANGED clientErrored
  /\ Commit(handleMessage(Cur, frame), Op("orphan message", "none"))

\* 'ping' of such a socket: the listener looks at this.ws, not at the socket
\* the ping came in on
OrphanPing(i, data) ==
  /\ orphans[i] \in {"OPEN", "CLOSING"}
  /\ UNCHANGED clientErrored
  /\ Commit(onPing(Cur, data), Op("orphan ping", "none"))

NextConnector ==
  \/ ApiConnect
  \/ ApiDisconnect
  \/ \E symbol \in Symbols, throws \in BOOLEAN : ApiSubscribe(symbol, throws)
  \/ \E symbol \in Symbols, throws \in BOOLEAN : ApiUnsubscribe(symbol, throws)
  \/ UpstreamOpen
  \/ \E frame \in ConnectorFrames : UpstreamMessage(frame, {})
  \/ \E i \in DOMAIN orphans, frame \in ConnectorFrames : OrphanMessage(i, frame)
  \/ \E data \in PingPayloads : UpstreamPing(data)
  \/ \E i \in DOMAIN orphans, data \in PingPayloads : OrphanPing(i, data)
  \/ UpstreamError
  \/ UpstreamClosing
  \/ UpstreamClose
  \/ ReconnectTimer
  \/ \E i \in DOMAIN orphans : OrphanOpen(i)
  \/ \E i \in DOMAIN orphans : OrphanError(i)
  \/ \E i \in DOMAIN orphans : OrphanClose(i)

SpecConnector == Init /\ [][NextConnector]_vars

\* ------------------------------------------------ the ladder builder alone
\* handleDepthMessage's two pipelines applied to every side of up to
\* MaxLevels levels, in any order, with sizes that are zero, positive,
\* negative or not a number, and prices that may not be a number either.
DepthPrices == {"49900", "50000", "50100", "abc"}
DepthSizes == {"0", "1", "1.5", "-1", "abc"}
DepthLevels == {<< p, q >> : p \in DepthPrices, q \in DepthSizes}
DepthSides == UNION {[1..n -> DepthLevels] : n \in 0..MaxLevels}

InitDepth ==
  /\ InitRelay
  /\ gateway = "ws"
  /\ depthSide \in DepthSides
  /\ depthKind = "none"
  /\ depthLadder = <<>>

\* bids: message.bids.map(parseDepthFloats).sort(sortDepthDesc).reduce(...)
BuildBids ==
  /\ depthKind = "none"
  /\ depthKind' = "bids"
  /\ \E sorted \in sortOutcomes(mapParseDepthFloats(depthSide), TRUE) :
       depthLadder' = reduceFrom(sorted, 1, <<>>)
  /\ UNCHANGED << subscriptions, clientSubscriptions, clientReady, clientErrored,
                  gateway, rooms, gatewayActiveSymbols, awaiting, ws, orphans, activeSymbols, subscriptionId, reconnectAttempts,
                  timers, upFrames, heartbeat, calls, rejected, emitted, clientOut,
                  uncaught, everSubscribed, depthSide, lastOp >>
  /\ UNCHANGED frontendVars

\* asks: message.asks.map(parseDepthFloats).sort(sortDepthAsc).reduce(...)
BuildAsks ==
  /\ depthKind = "none"
  /\ depthKind' = "asks"
  /\ \E sorted \in sortOutcomes(mapParseDepthFloats(depthSide), FALSE) :
       depthLadder' = reduceFrom(sorted, 1, <<>>)
  /\ UNCHANGED << subscriptions, clientSubscriptions, clientReady, clientErrored,
                  gateway, rooms, gatewayActiveSymbols, awaiting, ws, orphans, activeSymbols, subscriptionId, reconnectAttempts,
                  timers, upFrames, heartbeat, calls, rejected, emitted, clientOut,
                  uncaught, everSubscribed, depthSide, lastOp >>
  /\ UNCHANGED frontendVars

NextDepth == BuildBids \/ BuildAsks

SpecDepth == InitDepth /\ [][NextDepth]_vars

\* ------------------------------------------------- the socket.io gateway
\* The older WebSocketServer (websocketServer.ts:8-215) with the connector:
\* rooms instead of the two maps, and a handleSubscribe that awaits the
\* connector's subscribe().
MaxAwaiting == 2

SymbolList == << "BTCUSDT", "ETHUSDT" >>

InitSocketIo ==
  /\ InitRelay
  /\ gateway = "socket.io"
  /\ depthSide = <<>>
  /\ depthKind = "none"
  /\ depthLadder = <<>>

\* io.on('connection')
IoConnection(c) ==
  /\ clientReady[c] = "NONE"
  /\ \A i \in 1..Len(ClientOrder) :
       ClientOrder[i] = c => \A j \in 1..(i - 1) : clientReady[ClientOrder[j]] # "NONE"
  /\ UNCHANGED clientErrored
  /\ Commit([Cur EXCEPT !.clientReady[c] = "OPEN"], Op("io connection", c))

\* socket.on('subscribe'): handleSubscribe runs up to its await
IoSubscribe(c, symbol) ==
  /\ clientReady[c] = "OPEN"
  /\ Len(awaiting) < MaxAwaiting
  /\ UNCHANGED clientErrored
  /\ Commit(ioHandleSubscribe(Cur, c, symbol),
            [Op("io subscribe", c) EXCEPT !.held = << symbol >>])

\* the continuation of the handleSubscribe call suspended first
IoSubscribeResumed ==
  /\ awaiting # <<>>
  /\ UNCHANGED clientErrored
  /\ Commit(ioHandleSubscribeResumed(Cur),
            [Op("io subscribe resumed", Head(awaiting).client) EXCEPT
               !.held = << Head(awaiting).symbol >>])

\* socket.on('unsubscribe')
IoUnsubscribe(c, symbol) ==
  /\ clientReady[c] = "OPEN"
  /\ UNCHANGED clientErrored
  /\ Commit(ioHandleUnsubscribe(Cur, c, symbol),
            [Op("io unsubscribe", c) EXCEPT !.held = << symbol >>])

\* socket.on('disconnect'): socket.io has taken the socket out of its rooms
IoDisconnect(c) ==
  /\ clientReady[c] = "OPEN"
  /\ UNCHANGED clientErrored
  /\ Commit(ioHandleDisconnect(leaveAllFrom([Cur EXCEPT !.clientReady[c] = "CLOSED"],
                                            c, SymbolList), c),
            Op("io disconnect", c))

NextSocketIo ==
  \/ \E c \in Clients : IoConnection(c)
  \/ \E c \in Clients, symbol \in ClientSymbols : IoSubscribe(c, symbol)
  \/ IoSubscribeResumed
  \/ \E c \in Clients, symbol \in Symbols : IoUnsubscribe(c, symbol)
  \/ \E c \in Clients : IoDisconnect(c)
  \/ UpstreamOpen
  \/ \E frame \in UpstreamFrames : UpstreamMessage(frame, {})
  \/ UpstreamError
  \/ UpstreamClosing
  \/ UpstreamClose
  \/ ReconnectTimer

SpecSocketIo == InitSocketIo /\ [][NextSocketIo]_vars

\* ----------------------------------- BinanceService, older variant, alone
\* The connector as binanceService.ts had it before (single-stream endpoint,
\* raw event objects {e, s, ...}, Date.now() as frame id, a constant delay and
\* one cancellable reconnect timer), driven by its owner and by its sockets.
olderReconnectDelay == 5000
olderStreams == << "trade", "depth", "ticker" >>

\* Date.now() as read by subscribe/unsubscribe
Clock == {1234567890, 1234567891}

\* streams.map(stream => `${symbol.toLowerCase()}@${stream}`)
olderControlFrame(method, symbol, streamList, now) ==
  [method |-> method,
   params |-> [i \in 1..Len(streamList) |-> toLowerCase(symbol) \o "@" \o streamList[i]],
   id |-> now]

\* WebSocket.close(): starts the closing handshake of a socket that is
\* connecting or open
wsClose(readyState) ==
  IF readyState \in {"CONNECTING", "OPEN"} THEN "CLOSING" ELSE readyState

\* BinanceService.subscribe (older): activeSymbols holds lower-case symbols
olderSubscribe(st, symbol, streamList, now) ==
  IF st.ws = "null" \/ st.ws # "OPEN"
  THEN [st EXCEPT !.rejected = Append(@,
          AppError("WebSocket is not connected", ErrorCodes.WEBSOCKET_CONNECTION_FAILED, 500))]
  ELSE IF st.upstreamThrowing
  THEN [st EXCEPT !.rejected = Append(@,
          AppError("Failed to subscribe to market data", ErrorCodes.WEBSOCKET_SUBSCRIPTION_FAILED, 500))]
  ELSE [st EXCEPT !.upFrames = Append(@, olderControlFrame("SUBSCRIBE", symbol, streamList, now)),
                  !.activeSymbols = SetAdd(@, toLowerCase(symbol))]

\* BinanceService.unsubscribe (older)
olderUnsubscribe(st, symbol, now) ==
  IF st.ws = "null" \/ st.ws # "OPEN" THEN st
  ELSE IF st.upstreamThrowing THEN st
  ELSE [st EXCEPT !.upFrames = Append(@, olderControlFrame("UNSUBSCRIBE", symbol, olderStreams, now)),
                  !.activeSymbols = SetDelete(@, toLowerCase(symbol))]

\* BinanceService.resubscribe (older); a rejection is caught and logged
RECURSIVE olderResubscribeFrom(_, _, _)
olderResubscribeFrom(st, i, now) ==
  IF i > Len(st.activeSymbols) THEN st
  ELSE olderResubscribeFrom(
         [olderSubscribe(st, st.activeSymbols[i], olderStreams, now) EXCEPT !.rejected = st.rejected],
         i + 1, now)

olderResubscribe(st, now) == olderResubscribeFrom(st, 1, now)

\* BinanceService.disconnect (older)
olderDisconnect(st) ==
  LET st1 == [st EXCEPT !.timers = <<>>]          \* clearTimeout(this.reconnectTimer)
  IN  IF st1.ws = "null" THEN st1
      ELSE [st1 EXCEPT !.orphans = IF st1.ws = "CLOSED" THEN @ ELSE Append(@, "CLOSING"),
                       !.ws = "null",
                       !.activeSymbols = <<>>]

\* the 'close' listener (older): at most one timer is pending
olderOnClose(st) ==
  IF st.reconnectAttempts < maxReconnectAttempts
  THEN [st EXCEPT !.reconnectAttempts = @ + 1,
                  !.timers = << olderReconnectDelay >>]
  ELSE st                                          \* the AppError is only logged

\* the 'error' listener (older): emit, then this.ws.close() on whatever socket
\* this.ws refers to
olderOnError(st) ==
  LET st1 == emit(st, "error", AppError("WebSocket connection error",
                                        ErrorCodes.WEBSOCKET_CONNECTION_FAILED, 500))
  IN  IF st1.ws # "null" THEN [st1 EXCEPT !.ws = wsClose(@)] ELSE st1

\* handleTradeMessage, handleDepthMessage, handleTickerMessage (older); the
\* result is the state, or the thrown Error
olderHandleTradeMessage(st, message) ==
  IF ~TruthyStr(message.s) \/ ~TruthyStr(message.p) \/ ~TruthyStr(message.q)
     \/ ~TruthyNum(message.T) \/ ~TruthyNum(message.t)
  THEN [thrown |-> "Missing required fields in trade message", st |-> st]
  ELSE [thrown |-> "",
        st |-> emit(st, "trade",
                    [symbol |-> message.s, price |-> message.p, quantity |-> message.q,
                     timestamp |-> message.T, tradeId |-> message.t])]

olderHandleDepthMessage(st, message) ==
  IF ~TruthyStr(message.s) \/ ~TruthyNum(message.U) \/ ~TruthyNum(message.u)
     \/ ~message.bIsArray \/ ~message.aIsArray
  THEN [thrown |-> "Missing required fields in depth message", st |-> st]
  ELSE [thrown |-> "",
        st |-> emit(st, "depth",
                    [symbol |-> message.s, firstUpdateId |-> message.U,
                     finalUpdateId |-> message.u, bids |-> message.b, asks |-> message.a])]

olderHandleTickerMessage(st, message) ==
  IF \/ \E v \in {message.s, message.p, message.P, message.w, message.c, message.Q,
                  message.b, message.a, message.o, message.h, message.l, message.v,
                  message.q} : ~TruthyStr(v)
     \/ \E n \in {message.O, message.C, message.F, message.L, message.n} : ~TruthyNum(n)
  THEN [thrown |-> "Missing required fields in ticker message", st |-> st]
  ELSE [thrown |-> "",
        st |-> emit(st, "ticker",
                    [symbol |-> message.s, priceChange |-> message.p,
                     priceChangePercent |-> message.P, weightedAvgPrice |-> message.w,
                     lastPrice |-> message.c, lastQty |-> message.Q, bidPrice |-> message.b,
                     askPrice |-> message.a, openPrice |-> message.o, highPrice |-> message.h,
                     lowPrice |-> message.l, volume |-> message.v, quoteVolume |-> message.q,
                     openTime |-> message.O, closeTime |-> message.C, firstId |-> message.F,
                     lastId |-> message.L, count |-> message.n])]

\* the two branches of the catch block of handleMessage (older)
olderCatchSyntaxError(st) ==
  emit([st EXCEPT !.exc = ""], "error",
       AppError("Failed to parse market data", ErrorCodes.INVALID_MARKET_DATA, 500))

olderCatchOther(st) ==
  emit([st EXCEPT !.exc = ""], "error",
       AppError("Invalid market data received", ErrorCodes.INVALID_MARKET_DATA, 400))

\* BinanceService.handleMessage (older)
olderHandleMessage(st, frame) ==
  IF ~frame.json THEN olderCatchSyntaxError(st)
  ELSE IF ~frame.object THEN olderCatchOther(st)     \* 'Invalid message format'
  ELSE LET r == CASE frame.e = "trade" -> olderHandleTradeMessage(st, frame.m)
                   [] frame.e = "depthUpdate" -> olderHandleDepthMessage(st, frame.m)
                   [] frame.e = "24hrTicker" -> olderHandleTickerMessage(st, frame.m)
                   [] OTHER -> [thrown |-> "", st |-> st]   \* 'Ignoring message type'
       IN  IF r.thrown # "" \/ r.st.exc # "" THEN olderCatchOther(r.st) ELSE r.st

\* the 'message' listener (older): what escapes handleMessage is reported as
\* a parse failure
olderOnMessage(st, frame) ==
  LET r == olderHandleMessage(st, frame)
  IN  IF r.exc # "" THEN olderCatchSyntaxError(r) ELSE r

\* what the exchange may send on the single-stream endpoint: an event object,
\* JSON that is not an object, or text that is not JSON
OlderTrade == [s |-> "BTCUSDT", p |-> "50000", q |-> "1", T |-> 123456789, t |-> 12345]
OlderDepth ==
  [s |-> "BTCUSDT", U |-> 1, u |-> 2, bIsArray |-> TRUE, aIsArray |-> TRUE,
   b |-> << <<"49900", "1">> >>, a |-> << <<"50100", "1">> >>]
OlderTicker ==
  [s |-> "BTCUSDT", p |-> "1000", P |-> "2", w |-> "50000", c |-> "51000", Q |-> "1",
   b |-> "50999", a |-> "51001", o |-> "49000", h |-> "52000", l |-> "48000",
   v |-> "100", q |-> "5000000", O |-> 123456789, C |-> 123556789, F |-> 1000,
   L |-> 2000, n |-> 1000]
OlderEvent(e, m) == [json |-> TRUE, object |-> TRUE, e |-> e, m |-> m]
OlderFrames ==
  { OlderEvent("trade", OlderTrade),
    OlderEvent("trade", [OlderTrade EXCEPT !.s = "ETHUSDT"]),
    OlderEvent("trade", [OlderTrade EXCEPT !.p = Undefined, !.q = Undefined,
                                           !.T = NoNumber, !.t = NoNumber]),
    OlderEvent("depthUpdate", OlderDepth),
    OlderEvent("depthUpdate", [OlderDepth EXCEPT !.bIsArray = FALSE, !.b = <<>>]),
    OlderEvent("24hrTicker", OlderTicker),
    OlderEvent("24hrTicker", [OlderTicker EXCEPT !.w = Undefined]),
    OlderEvent("unknown", [s |-> "BTCUSDT"]),
    OlderEvent("kline", [s |-> "ETHUSDT"]),
    OlderEvent(Undefined, [s |-> Undefined]),
    [json |-> TRUE, object |-> FALSE, e |-> Undefined, m |-> [s |-> Undefined]],
    [json |-> FALSE, object |-> FALSE, e |-> Undefined, m |-> [s |-> Undefined]] }

\* connect() called by the owner, who holds no connection at the time
OlderConnect ==
  /\ ws \in {"null", "CLOSED"}
  /\ NumUpstream < MaxSockets
  /\ UNCHANGED clientErrored
  /\ Commit(connect(Cur), Op("older connect", "none"))

OlderDisconnect ==
  /\ UNCHANGED clientErrored
  /\ Commit(olderDisconnect(Cur), Op("older disconnect", "none"))

OlderSubscribe(symbol, now, throws) ==
  /\ UNCHANGED clientErrored
  /\ Commit(olderSubscribe([Cur EXCEPT !.upstreamThrowing = throws], symbol, olderStreams, now),
            [Op("older subscribe", "none") EXCEPT !.held = << symbol >>])

OlderUnsubscribe(symbol, now, throws) ==
  /\ UNCHANGED clientErrored
  /\ Commit(olderUnsubscribe([Cur EXCEPT !.upstreamThrowing = throws], symbol, now),
            [Op("older unsubscribe", "none") EXCEPT !.held = << symbol >>])

\* this.ws.on('open') (older)
OlderOpen(now) ==
  /\ ws = "CONNECTING"
  /\ UNCHANGED clientErrored
  /\ Commit(olderResubscribe([Cur EXCEPT !.ws = "OPEN", !.reconnectAttempts = 0], now),
            Op("older open", "none"))

\* this.ws.on('message') (older)
OlderMessage(frame) ==
  /\ ws = "OPEN"
  /\ UNCHANGED clientErrored
  /\ Commit(olderOnMessage(Cur, frame), [Op("older message", "none") EXCEPT !.held = << frame.e >>])

\* this.ws.on('error') (older)
OlderError ==
  /\ ws \in {"CONNECTING", "OPEN"}
  /\ UNCHANGED clientErrored
  /\ Commit(olderOnError([Cur EXCEPT !.ws = "CLOSING"]), Op("older error", "none"))

\* the exchange starts the closing handshake; no listener runs
OlderClosing ==
  /\ ws = "OPEN"
  /\ UNCHANGED clientErrored
  /\ Commit([Cur EXCEPT !.ws = "CLOSING"], Op("older closing", "none"))

\* this.ws.on('close') (older)
OlderClose ==
  /\ ws \in {"OPEN", "CLOSING"}
  /\ UNCHANGED clientErrored
  /\ Commit(olderOnClose([Cur EXCEPT !.ws = "CLOSED"]), Op("older close", "none"))

\* 'open', 'error' and 'close' of a socket this.ws no longer refers to
OlderOrphanOpen(i, now) ==
  /\ orphans[i] = "CONNECTING"
  /\ UNCHANGED clientErrored
  /\ Commit(olderResubscribe([Cur EXCEPT !.orphans[i] = "OPEN", !.reconnectAttempts = 0], now),
            Op("older orphan open", "none"))

OlderOrphanError(i) ==
  /\ orphans[i] \in {"CONNECTING", "OPEN"}
  /\ UNCHANGED clientErrored
  /\ Commit(olderOnError([Cur EXCEPT !.orphans[i] = "CLOSING"]), Op("older orphan error", "none"))

OlderOrphanClose(i) ==
  /\ orphans[i] \in {"OPEN", "CLOSING"}
  /\ UNCHANGED clientErrored
  /\ Commit(olderOnClose([Cur EXCEPT !.orphans = RemoveAt(@, i)]), Op("older orphan close", "none"))

\* the setTimeout callback (older): this.connect(); this.reconnectTimer = null
OlderTimer ==
  /\ timers # <<>>
  /\ UNCHANGED clientErrored
  /\ Commit(connect([Cur EXCEPT !.timers = <<>>]), Op("older timer", "none"))

NextOlder ==
  \/ OlderConnect
  \/ OlderDisconnect
  \/ \E symbol \in Symbols, now \in Clock, throws \in BOOLEAN : OlderSubscribe(symbol, now, throws)
  \/ \E symbol \in Symbols, now \in Clock, throws \in BOOLEAN : OlderUnsubscribe(symbol, now, throws)
  \/ \E now \in Clock : OlderOpen(now)
  \/ \E frame \in OlderFrames : OlderMessage(frame)
  \/ OlderError
  \/ OlderClosing
  \/ OlderClose
  \/ OlderTimer
  \/ \E i \in DOMAIN orphans, now \in Clock : OlderOrphanOpen(i, now)
  \/ \E i \in DOMAIN orphans : OlderOrphanError(i)
  \/ \E i \in DOMAIN orphans : OlderOrphanClose(i)

SpecOlder == Init /\ [][NextOlder]_vars

\* --------------------------- the ws gateway under any order of client events
\* The gateway's three listeners on a client socket, run in any order until
\* the socket's 'close': besides the order in which a socket that fails
\* emits them ('message'*, 'error', 'close'), a 'message' after the 'error'
\* listener has run.
ClientMessageAfterError(c, raw) ==
  /\ clientReady[c] = "CLOSING"
  /\ clientErrored[c]
  /\ UNCHANGED clientErrored
  /\ Commit(onClientMessage(Cur, c, raw), Op("message after error", c))

NextAnyOrder ==
  \/ \E c \in Clients : ClientConnect(c)
  \/ \E c \in Clients, raw \in ClientMessages : ClientMessage(c, raw)
  \/ \E c \in Clients, raw \in ClientMessages : ClientMessageAfterError(c, raw)
  \/ \E c \in Clients : ClientClosing(c)
  \/ \E c \in Clients : ClientError(c)
  \/ \E c \in Clients : ClientClose(c)
  \/ UpstreamOpen
  \/ UpstreamClosing
  \/ UpstreamClose
  \/ ReconnectTimer

SpecAnyOrder == Init /\ [][NextAnyOrder]_vars

\* ------------------------------------------- the frontend's market context
\* MarketContext.tsx: the reducer that holds the market data shown by the
\* components, and the provider that owns the socket.io socket to the
\* gateway.  The provider stays mounted; its socket connects and disconnects
\* (reconnection: true), the application calls subscribe and unsubscribe,
\* and the gateway's 'market_data' events are dispatched to the reducer.

\* the symbols as the components pass them to subscribe and unsubscribe
FeSymbolInputs == {"BTC_USDT", "btcusdt", "ETHUSDT", ""}

\* `symbol.replace('_', '')`: the first underscore is removed
removeUnderscore(s) ==
  CASE s = "BTC_USDT" -> "BTCUSDT"
    [] s = "ETH_USDT" -> "ETHUSDT"
    [] OTHER -> s

\* `symbol.replace('_', '').toUpperCase()`
formattedSymbol(symbol) == toUpperCase(removeUnderscore(symbol))

\* the decimal strings of the frontend's messages, with the index of their
\* '.' (-1 when there is none) and their length
FeDecimals ==
  [ s \in {"50000", "50000.5", "0.25", "1"} |->
      CASE s = "50000"   -> [indexOfDot |-> -1, length |-> 5]
        [] s = "50000.5" -> [indexOfDot |-> 5,  length |-> 7]
        [] s = "0.25"    -> [indexOfDot |-> 1,  length |-> 4]
        [] s = "1"       -> [indexOfDot |-> -1, length |-> 1] ]

getDecimalPlaces(value) ==
  LET decimalIndex == FeDecimals[value].indexOfDot
  IN IF decimalIndex = -1 THEN 0 ELSE FeDecimals[value].length - decimalIndex - 1

Max(a, b) == IF a >= b THEN a ELSE b
Min(a, b) == IF a <= b THEN a ELSE b

\* `current` is <<>> when the symbol has no precision yet (undefined), and
\* the one-element sequence of the precision otherwise
updatePrecision(current, price, amount) ==
  LET priceDecimals == getDecimalPlaces(price)
      amountDecimals == getDecimalPlaces(amount)
  IN IF current = <<>>
     THEN [price |-> priceDecimals, amount |-> amountDecimals]
     ELSE [price |-> Max(current[1].price, priceDecimals),
           amount |-> Max(current[1].amount, amountDecimals)]

\* the length of the trade list the current reducer keeps
TradeListLimit == 20

\* `list.slice(0, n)`
sliceFromStart(list, n) == SubSeq(list, 1, IF Len(list) < n THEN Len(list) ELSE n)

\* `record[key]`: <<>> for a missing key (undefined), <<value>> otherwise
MapGet(map, k) == IF MapHas(map, k) THEN <<map[k]>> ELSE <<>>

\* a SET_TRADE that never cuts the list
marketReducer_SET_TRADE_uncut(state, payload) ==
  LET currentTrades == IF MapHas(state.trades, payload.symbol)
                       THEN state.trades[payload.symbol] ELSE <<>>
      newPrecision == updatePrecision(MapGet(state.decimalPrecision, payload.symbol),
                                      payload.trade.price, payload.trade.quantity)
  IN [state EXCEPT !.trades = MapSet(@, payload.symbol, <<payload.trade>> \o currentTrades),
                   !.decimalPrecision = MapSet(@, payload.symbol, newPrecision)]

marketReducer_SET_TRADE(state, payload) ==
  LET currentTrades == IF MapHas(state.trades, payload.symbol)
                       THEN state.trades[payload.symbol] ELSE <<>>
      newTrades == sliceFromStart(<<payload.trade>> \o currentTrades, TradeListLimit)
      newPrecision == updatePrecision(MapGet(state.decimalPrecision, payload.symbol),
                                      payload.trade.price, payload.trade.quantity)
  IN [state EXCEPT !.trades = MapSet(@, payload.symbol, newTrades),
                   !.decimalPrecision = MapSet(@, payload.symbol, newPrecision)]

marketReducer(state, action) ==
  CASE action.type = "SET_TICKER" ->
         [state EXCEPT !.tickers = MapSet(@, action.payload.symbol, action.payload)]
    [] action.type = "SET_TRADE" -> marketReducer_SET_TRADE(state, action.payload)
    [] action.type = "SET_ORDER_BOOK" ->
         [state EXCEPT !.orderBooks = MapSet(@, action.payload.symbol, action.payload)]
    [] action.type = "SET_ERROR" -> [state EXCEPT !.error = action.payload]
    [] action.type = "CLEAR_ERROR" -> [state EXCEPT !.error = "null"]
    [] action.type = "SET_CONNECTED" ->
         [state EXCEPT !.isConnected = action.payload,
                       !.error = IF action.payload THEN "null"
                                 ELSE "Disconnected from market data service"]
    [] action.type = "UPDATE_DECIMAL_PRECISION" ->
         [state EXCEPT !.decimalPrecision =
                          MapSet(@, action.payload.symbol, action.payload.precision)]
    [] OTHER -> state

\* the provider's state as one record: the socket's `connected`, the pending
\* set, the reducer's state, and what the handler has emitted on the socket
Provider ==
  [ connected |-> socketConnected, pending |-> pendingSubscriptions,
    state |-> marketState, emitted |-> <<>> ]

socketEmit(event, arg) == [event |-> event, arg |-> arg]

dispatch(pv, action) == [pv EXCEPT !.state = marketReducer(@, action)]

providerHandleSubscribe(pv, symbol) ==
  IF symbol = "" THEN pv
  ELSE IF ~pv.connected
  THEN [pv EXCEPT !.pending = SetAdd(@, formattedSymbol(symbol))]
  ELSE [pv EXCEPT !.emitted = Append(@, socketEmit("subscribe", formattedSymbol(symbol)))]

providerHandleUnsubscribe(pv, symbol) ==
  IF symbol = "" THEN pv
  ELSE LET sent == IF pv.connected
                   THEN [pv EXCEPT !.emitted =
                           Append(@, socketEmit("unsubscribe", formattedSymbol(symbol)))]
                   ELSE pv
       IN [sent EXCEPT !.pending = SetDelete(@, formattedSymbol(symbol))]

\* the 'connect' listener: one 'subscribe' per pending symbol, in the Set's order
onSocketConnect(pv) ==
  LET on == dispatch(pv, [type |-> "SET_CONNECTED", payload |-> TRUE])
  IN [on EXCEPT !.emitted =
        @ \o [i \in 1..Len(pv.pending) |-> socketEmit("subscribe", pv.pending[i])]]

onSocketDisconnect(pv) == dispatch(pv, [type |-> "SET_CONNECTED", payload |-> FALSE])

onSocketError(pv, message) == dispatch(pv, [type |-> "SET_ERROR", payload |-> message])

providerHandleMessage(pv, message) ==
  CASE message.type = "ticker" ->
         dispatch(pv, [type |-> "SET_TICKER", payload |-> message.data])
    [] message.type = "trade" ->
         dispatch(pv, [type |-> "SET_TRADE",
                       payload |-> [symbol |-> message.data.symbol, trade |-> message.data]])
    [] message.type = "depth20" ->
         dispatch(pv, [type |-> "SET_ORDER_BOOK", payload |-> message.data])
    [] OTHER -> pv

\* the provider's state after a handler, the backend left alone
CommitProvider(pv, op) ==
  /\ socketConnected' = pv.connected
  /\ pendingSubscriptions' = pv.pending
  /\ marketState' = pv.state
  /\ socketEmitted' = pv.emitted
  /\ lastOp' = op
  /\ UNCHANGED olderMarketState
  /\ UNCHANGED backendVars

\* the socket connects (the first connection or a reconnection)
SocketConnect ==
  /\ ~socketConnected
  /\ CommitProvider(onSocketConnect([Provider EXCEPT !.connected = TRUE]),
                    Op("socket connect", "none"))
  /\ UNCHANGED << appSubscribed, tradeIds >>

SocketDisconnect ==
  /\ socketConnected
  /\ CommitProvider(onSocketDisconnect([Provider EXCEPT !.connected = FALSE]),
                    Op("socket disconnect", "none"))
  /\ UNCHANGED << appSubscribed, tradeIds >>

SocketError ==
  /\ CommitProvider(onSocketError(Provider, "websocket error"), Op("socket error", "none"))
  /\ UNCHANGED << appSubscribed, tradeIds >>

\* a component calls subscribe(symbol) of the actions context
AppSubscribe(symbol) ==
  /\ CommitProvider(providerHandleSubscribe(Provider, symbol), Op("app subscribe", "none"))
  /\ appSubscribed' = IF symbol = "" THEN appSubscribed
                      ELSE appSubscribed \cup {formattedSymbol(symbol)}
  /\ UNCHANGED tradeIds

AppUnsubscribe(symbol) ==
  /\ CommitProvider(providerHandleUnsubscribe(Provider, symbol), Op("app unsubscribe", "none"))
  /\ appSubscribed' = IF symbol = "" THEN appSubscribed
                      ELSE appSubscribed \ {formattedSymbol(symbol)}
  /\ UNCHANGED tradeIds

NextMarketProvider ==
  \/ SocketConnect
  \/ SocketDisconnect
  \/ SocketError
  \/ \E symbol \in FeSymbolInputs : AppSubscribe(symbol)
  \/ \E symbol \in FeSymbolInputs : AppUnsubscribe(symbol)

SpecMarketProvider == Init /\ [][NextMarketProvider]_vars

\* ---------------------------------------------- the frontend's reducer alone
\* The reducer under every action it accepts: the three kinds of
\* 'market_data' message, which the provider's handleMessage turns into
\* SET_TICKER, SET_TRADE and SET_ORDER_BOOK, and the other action types
\* dispatched directly.  Trades are numbered per symbol in the order the
\* frontend receives them.

\* how many trades the frontend receives per symbol: past the reducer's limit
\* for the first symbol, a few for the second
MaxTradesReceived == 22
MaxOtherTradesReceived == 2
TradesReceivedBound(symbol) ==
  IF symbol = "BTCUSDT" THEN MaxTradesReceived ELSE MaxOtherTradesReceived

FeTrade(symbol, id) ==
  [ symbol |-> symbol,
    price |-> IF symbol = "BTCUSDT" THEN "50000.5" ELSE "50000",
    quantity |-> IF symbol = "BTCUSDT" THEN "0.25" ELSE "1",
    tradeId |-> id ]

FeTicker(symbol) == [symbol |-> symbol, price |-> "50000.5"]

FeOrderBook(symbol) ==
  [symbol |-> symbol, bids |-> << <<"50000", "1">> >>, asks |-> << <<"50000.5", "0.25">> >>]

\* the 'market_data' messages of the gateway, and one of a type the
\* frontend does not know
FeTickerMessage(symbol) == [type |-> "ticker", data |-> FeTicker(symbol)]
FeTradeMessage(symbol) == [type |-> "trade", data |-> FeTrade(symbol, tradeIds[symbol] + 1)]
FeDepthMessage(symbol) == [type |-> "depth20", data |-> FeOrderBook(symbol)]
FeUnknownMessage == [type |-> "kline", data |-> FeTicker("BTCUSDT")]

\* the action handleMessage dispatches for a message ("none" for a message it drops)
DispatchedType(message) ==
  CASE message.type = "ticker" -> "SET_TICKER"
    [] message.type = "trade" -> "SET_TRADE"
    [] message.type = "depth20" -> "SET_ORDER_BOOK"
    [] OTHER -> "none"

\* the precision of an UPDATE_DECIMAL_PRECISION action
FePrecision == [price |-> 2, amount |-> 1]

\* the socket's 'market_data' event
MarketData(message) ==
  /\ message.type = "trade" => tradeIds[message.data.symbol] < TradesReceivedBound(message.data.symbol)
  /\ CommitProvider(providerHandleMessage(Provider, message),
                    [Op("market_data", "none") EXCEPT !.held = <<DispatchedType(message)>>])
  /\ tradeIds' = IF message.type = "trade"
                 THEN [tradeIds EXCEPT ![message.data.symbol] = @ + 1]
                 ELSE tradeIds
  /\ UNCHANGED appSubscribed

Dispatch(action) ==
  /\ CommitProvider(dispatch(Provider, action),
                    [Op("dispatch", "none") EXCEPT !.held = <<action.type>>])
  /\ UNCHANGED << appSubscribed, tradeIds >>

NextReducer ==
  \/ \E symbol \in Symbols : MarketData(FeTickerMessage(symbol))
  \/ \E symbol \in Symbols : MarketData(FeTradeMessage(symbol))
  \/ \E symbol \in Symbols : MarketData(FeDepthMessage(symbol))
  \/ MarketData(FeUnknownMessage)
  \/ Dispatch([type |-> "SET_ERROR", payload |-> "websocket error"])
  \/ Dispatch([type |-> "CLEAR_ERROR"])
  \/ \E connected \in BOOLEAN : Dispatch([type |-> "SET_CONNECTED", payload |-> connected])
  \/ Dispatch([type |-> "UPDATE_DECIMAL_PRECISION",
               payload |-> [symbol |-> "BTCUSDT", precision |-> FePrecision]])
  \/ Dispatch([type |-> "RESET"])

SpecReducer == Init /\ [][NextReducer]_vars

\* ------------------------------------------------ the older frontend reducer
\* The older MarketContext keeps MAX_TRADES trades per symbol and the set of
\* subscribed symbols in the reducer's state; REMOVE_SYMBOL drops a symbol's
\* ticker, order book and trades.
MAX_TRADES == 10

\* how many trades the older frontend receives for the first symbol
MaxOlderTradesReceived == 12
OlderTradesReceivedBound(symbol) ==
  IF symbol = "BTCUSDT" THEN MaxOlderTradesReceived ELSE MaxOtherTradesReceived

olderMarketReducer(state, action) ==
  CASE action.type = "SET_TICKER" ->
         [state EXCEPT !.tickers = MapSet(@, action.payload.symbol, action.payload)]
    [] action.type = "SET_ORDER_BOOK" ->
         [state EXCEPT !.orderBooks = MapSet(@, action.payload.symbol, action.payload)]
    [] action.type = "ADD_TRADE" ->
         LET currentTrades == IF MapHas(state.trades, action.payload.symbol)
                              THEN state.trades[action.payload.symbol] ELSE <<>>
         IN [state EXCEPT !.trades =
               MapSet(@, action.payload.symbol,
                      <<action.payload>> \o sliceFromStart(currentTrades, MAX_TRADES - 1))]
    [] action.type = "SET_ERROR" -> [state EXCEPT !.error = action.payload]
    [] action.type = "CLEAR_ERROR" -> [state EXCEPT !.error = "null"]
    [] action.type = "ADD_SYMBOL" ->
         [state EXCEPT !.subscribedSymbols = SetAdd(@, action.payload)]
    [] action.type = "REMOVE_SYMBOL" ->
         [state EXCEPT !.subscribedSymbols = SetDelete(@, action.payload),
                       !.tickers = MapDelete(@, action.payload),
                       !.orderBooks = MapDelete(@, action.payload),
                       !.trades = MapDelete(@, action.payload)]
    [] OTHER -> state

OlderDispatch(action) ==
  /\ action.type = "ADD_TRADE" =>
       tradeIds[action.payload.symbol] < OlderTradesReceivedBound(action.payload.symbol)
  /\ olderMarketState' = olderMarketReducer(olderMarketState, action)
  /\ tradeIds' = IF action.type = "ADD_TRADE"
                 THEN [tradeIds EXCEPT ![action.payload.symbol] = @ + 1]
                 ELSE tradeIds
  /\ lastOp' = [Op("older dispatch", "none") EXCEPT !.held = <<action.type>>]
  /\ UNCHANGED << socketConnected, pendingSubscriptions, socketEmitted, appSubscribed,
                  marketState >>
  /\ UNCHANGED backendVars

NextOlderReducer ==
  \/ \E symbol \in Symbols : OlderDispatch([type |-> "SET_TICKER", payload |-> FeTicker(symbol)])
  \/ \E symbol \in Symbols : OlderDispatch([type |-> "SET_ORDER_BOOK", payload |-> FeOrderBook(symbol)])
  \/ \E symbol \in Symbols :
       OlderDispatch([type |-> "ADD_TRADE", payload |-> FeTrade(symbol, tradeIds[symbol] + 1)])
  \/ \E symbol \in Symbols : OlderDispatch([type |-> "ADD_SYMBOL", payload |-> symbol])
  \/ \E symbol \in Symbols : OlderDispatch([type |-> "REMOVE_SYMBOL", payload |-> symbol])
  \/ OlderDispatch([type |-> "SET_ERROR", payload |-> "websocket error"])
  \/ OlderDispatch([type |-> "CLEAR_ERROR"])
  \/ OlderDispatch([type |-> "RESET"])

SpecOlderReducer == Init /\ [][NextOlderReducer]_vars

\* ---------------------------------------------------------------- helpers
\* number of clients interested in symbol s (0 when the map has no entry)
Count(s) == IF MapHas(subscriptions, s) THEN Len(subscriptions[s]) ELSE 0

\* how many calls of `method` for symbol s the sequence cs holds
NumCalls(cs, method, s) ==
  Cardinality({i \in 1..Len(cs) : cs[i].method = method /\ cs[i].symbol = s})

\* how many control frames of `method` for symbol s the sequence fs holds
NumFrames(fs, method, s) ==
  Cardinality({i \in 1..Len(fs) : fs[i].method = method /\ fs[i].params = StreamNames(s)})

IsDisconnect(op) == op.op \in {"error", "close"}

\* ------------------------------------------------------------------ claims

\* C1: the symbols with at least one interested client (the keys of
\* `subscriptions`) are exactly the symbols the connector holds in
\* `activeSymbols`.  Control frames are written inside the handlers, so no
\* frame is in flight in any state between two handlers.
C1_RegistryEqualsActiveSymbols ==
  DOMAIN subscriptions = SetElems(activeSymbols)

\* C2: in every step and for every symbol, the gateway calls
\* BinanceService.subscribe at most once and only when the symbol had no entry
\* and its interested-client count goes from 0 to 1; it calls
\* BinanceService.unsubscribe exactly once if the count goes from nonzero to
\* zero and not at all otherwise; while the upstream socket is OPEN each call
\* writes exactly one control frame.
C2_UpstreamCallsOnlyOnTransitions ==
  [][ \A s \in Symbols :
        LET nSub   == NumCalls(calls', "subscribe", s)
            nUnsub == NumCalls(calls', "unsubscribe", s)
        IN  /\ nSub <= 1
            /\ nSub = 1 => (~MapHas(subscriptions, s) /\ Count(s) = 0 /\ Count(s)' = 1)
            /\ (lastOp'.op = "message" /\ Count(s) = 0 /\ Count(s)' = 1) => nSub = 1
            /\ nUnsub = (IF Count(s) > 0 /\ Count(s)' = 0 THEN 1 ELSE 0)
            /\ (lastOp'.op # "upstream open" /\ ws = "OPEN") =>
                  /\ NumFrames(upFrames', "SUBSCRIBE", s) = nSub
                  /\ NumFrames(upFrames', "UNSUBSCRIBE", s) = nUnsub
    ]_vars

\* C2 witness: a client message made a symbol's count drop to zero and the
\* one unsubscribe call went out as a frame, while another symbol is still held
C2_Witness ==
  /\ lastOp.op = "message"
  /\ \E s \in Symbols :
       /\ calls = << [method |-> "unsubscribe", symbol |-> s] >>
       /\ NumFrames(upFrames, "UNSUBSCRIBE", s) = 1
       /\ ~MapHas(subscriptions, s)
  /\ DOMAIN subscriptions # {}

\* C3: when a client disconnects ('error' or 'close'), BinanceService.unsubscribe
\* is called exactly once for each symbol whose only interested client it was,
\* and for no other symbol; a symbol another client still holds stays
\* registered; with the upstream socket OPEN each call is one UNSUBSCRIBE frame.
C3_DisconnectUnsubscribesLastHeld ==
  [][ IsDisconnect(lastOp') =>
        \A s \in Symbols :
          LET last == MapHas(subscriptions, s)
                      /\ subscriptions[s] = << lastOp'.client >>
                      /\ SetHas(Held(lastOp'.client), s)
              n    == NumCalls(calls', "unsubscribe", s)
          IN  /\ n = (IF last THEN 1 ELSE 0)
              /\ NumCalls(calls', "subscribe", s) = 0
              /\ (MapHas(subscriptions, s) /\ ~last) => MapHas(subscriptions', s)
              /\ ws = "OPEN" => NumFrames(upFrames', "UNSUBSCRIBE", s) = n
              /\ NumFrames(upFrames', "SUBSCRIBE", s) = 0
    ]_vars

\* C3 witness: two clients share a symbol for which one SUBSCRIBE frame was
\* written in total (the next id is 2); the first of them has disconnected,
\* no call and no frame went out, and the other still holds the symbol
C3_Witness ==
  /\ IsDisconnect(lastOp)
  /\ ws = "OPEN"
  /\ subscriptionId = 2
  /\ calls = <<>>
  /\ upFrames = <<>>
  /\ \E s \in Symbols :
       /\ lastOp.held = << s >>
       /\ MapHas(subscriptions, s)
       /\ Len(subscriptions[s]) = 1
       /\ activeSymbols = << s >>

\* C4: handleClientDisconnect is idempotent: in every reachable state and for
\* every client, a second call leaves `subscriptions` and
\* `clientSubscriptions` as the first call left them, calls the connector no
\* more and writes no frame.
C4_DisconnectIdempotent ==
  \A c \in Clients :
    LET once  == handleClientDisconnect(Cur, c)
        twice == handleClientDisconnect([once EXCEPT !.calls = <<>>, !.upFrames = <<>>], c)
    IN  /\ twice.subscriptions = once.subscriptions
        /\ twice.clientSubscriptions = once.clientSubscriptions
        /\ twice.activeSymbols = once.activeSymbols
        /\ twice.calls = <<>>
        /\ twice.upFrames = <<>>

\* C4 witness: 'close' ran for a client whose 'error' handler had already
\* removed it; the first call had unsubscribed a symbol upstream
C4_Witness ==
  /\ lastOp.op = "close"
  /\ lastOp.afterError
  /\ ~MapHas(clientSubscriptions, lastOp.client)
  /\ calls = <<>>
  /\ everSubscribed # {}
  /\ activeSymbols = <<>>

\* the 'trade' message the gateway writes for trade data d
TradeMessage(d) ==
  [type |-> "trade",
   data |-> [symbol |-> d.s, price |-> d.p, quantity |-> d.q, timestamp |-> d.T,
             tradeId |-> d.t, isBuyerMaker |-> d.m]]

TradeFrames == {f \in UpstreamFrames : f.json /\ ~f.hasResult /\ f.hasStream /\ f.hasData
                                       /\ f.eventType = "trade"}

\* a trade frame that passes handleTradeMessage's check of s, p, q, T and t
ValidTrade(d) ==
  TruthyStr(d.s) /\ TruthyStr(d.p) /\ TruthyStr(d.q) /\ TruthyNum(d.T) /\ TruthyNum(d.t)

Subscribers(s) == IF MapHas(subscriptions, s) THEN SetElems(subscriptions[s]) ELSE {}

C7_OpenResubscribesInterestedSymbols ==
  lastOp.op = "upstream open" =>
    /\ reconnectAttempts = 0
    /\ \A i \in 1..Len(upFrames) : upFrames[i].method = "SUBSCRIBE"
    /\ \A s \in Symbols : NumFrames(upFrames, "SUBSCRIBE", s) = (IF MapHas(subscriptions, s) THEN 1 ELSE 0)

\* C8: a subscribe made while the upstream socket is not OPEN is remembered:
\* by the time the connection has next opened, a SUBSCRIBE frame has been
\* written for every symbol a client is subscribed to.
C8_SubscribeWhileDownIsFlushed ==
  (ws = "OPEN") => DOMAIN subscriptions \subseteq everSubscribed

\* C9: BinanceService.subscribe called while the upstream socket is absent or
\* not OPEN rejects with AppError('WebSocket not connected',
\* WEBSOCKET_CONNECTION_CLOSED, 500), writes no frame and leaves the connector's
\* state alone; the gateway's subscribe for a new symbol while the socket is
\* not OPEN ends with exactly that rejection and no frame.
C9_SubscribeRejectsWhenNotOpen ==
  LET notConnected == [message |-> "WebSocket not connected",
                       code |-> "WEBSOCKET_CONNECTION_CLOSED", statusCode |-> 500]
  IN  /\ \A s \in Symbols, w \in {"null", "CONNECTING", "CLOSING", "CLOSED"} :
           LET r == subscribe([Cur EXCEPT !.ws = w], s)
           IN  /\ r.rejected = << notConnected >>
               /\ r.upFrames = <<>>
               /\ r.activeSymbols = activeSymbols
               /\ r.subscriptionId = subscriptionId
      /\ (lastOp.op = "message" /\ ws # "OPEN" /\ \E s \in Symbols : NumCalls(calls, "subscribe", s) = 1)
           => (rejected = << notConnected >> /\ upFrames = <<>>)
      /\ (lastOp.op = "message" /\ ws = "OPEN") => rejected = <<>>

\* C9 witness: a client subscribed to a new symbol while the upstream socket
\* was closed: the call was rejected and no frame written
C9_Witness ==
  /\ lastOp.op = "message"
  /\ ws = "CLOSED"
  /\ Len(calls) = 1
  /\ calls[1].method = "subscribe"
  /\ Len(rejected) = 1
  /\ upFrames = <<>>
  /\ MapHas(subscriptions, calls[1].symbol)

\* C10: no UNSUBSCRIBE frame is written for a symbol for which no SUBSCRIBE
\* frame was ever written.
C10_NoUnsubscribeFrameForNeverSubscribed ==
  \A s \in Symbols :
    NumFrames(upFrames, "UNSUBSCRIBE", s) > 0 => s \in everSubscribed

\* ------------------------------------------------- fan-out write failures
\* the messages of type t among those written to a client
OfType(out, t) == {i \in 1..Len(out) : out[i].type = t}

\* handling valid trade frame f while every send() to client t throws
FanoutWithFailure(f, t) == handleMessage([Cur EXCEPT !.throwing = {t}], f)

\* C11: when the write to one OPEN client throws during the fan-out of a valid
\* trade frame for a symbol subscribed upstream, every other subscriber of the frame's symbol whose socket is
\* OPEN still receives the trade message.
C11_FailingWriteDoesNotBlockOthers ==
  ws = "OPEN" =>
    \A f \in TradeFrames, t \in Clients :
      (ValidTrade(f.data) /\ SetHas(activeSymbols, f.data.s) /\ clientReady[t] = "OPEN") =>
        \A c \in Subscribers(f.data.s) \ {t} :
          clientReady[c] = "OPEN" =>
            \E i \in 1..Len(FanoutWithFailure(f, t).clientOut[c]) :
              FanoutWithFailure(f, t).clientOut[c][i] = TradeMessage(f.data)

\* C12: when the write to one subscriber throws during the fan-out of a valid
\* trade frame for a symbol subscribed upstream, the connector emits no 'error' event, no other client is sent
\* an 'error' message, no exception escapes the handler, and the upstream
\* socket, the retry state, `activeSymbols` and `subscriptions` stay as they were.
C12_FanoutFailureContained ==
  ws = "OPEN" =>
    \A f \in TradeFrames, t \in Clients :
      (ValidTrade(f.data) /\ SetHas(activeSymbols, f.data.s)
       /\ clientReady[t] = "OPEN" /\ t \in Subscribers(f.data.s)) =>
        LET r == FanoutWithFailure(f, t)
        IN  /\ \A i \in 1..Len(r.emitted) : r.emitted[i].event # "error"
            /\ \A c \in Clients \ {t} : OfType(r.clientOut[c], "error") = {}
            /\ r.exc = ""
            /\ r.ws = ws
            /\ r.reconnectAttempts = reconnectAttempts
            /\ r.timers = timers
            /\ r.activeSymbols = activeSymbols
            /\ r.subscriptions = subscriptions

\* --------------------------------------------------- invalid upstream frames
\* a ticker frame that passes handleTickerMessage's check
ValidTicker(d) ==
  /\ TruthyStr(d.s) /\ TruthyStr(d.c) /\ TruthyStr(d.P) /\ TruthyStr(d.o)
  /\ TruthyStr(d.h) /\ TruthyStr(d.l) /\ TruthyStr(d.v) /\ TruthyStr(d.q)

\* frames that are not JSON, or are no reply and lack `stream` or `data` or a
\* required field of their channel
MalformedJson(f) == ~f.json
MissingField(f) ==
  /\ f.json /\ ~f.hasResult
  /\ \/ ~f.hasStream \/ ~f.hasData
     \/ f.eventType = "trade" /\ ~ValidTrade(f.data)
     \/ f.eventType = "depth20" /\ (~f.data.bidsIsArray \/ ~f.data.asksIsArray)
     \/ f.eventType = "ticker" /\ ~ValidTicker(f.data)
InvalidFrame(f) == MalformedJson(f) \/ MissingField(f)

\* the output fields of a handler's result, cleared for the next handler
Cleared(st) ==
  [st EXCEPT !.upFrames = <<>>, !.heartbeat = <<>>, !.calls = <<>>, !.rejected = <<>>,
             !.emitted = <<>>, !.clientOut = NoOut, !.exc = ""]

\* C13: for every invalid upstream frame the connector emits exactly one
\* event, an 'error'; and the error emitted for a frame that is not JSON
\* differs from the error emitted for a frame with a missing field.
C13_InvalidFrameOneClassifiedError ==
  ws = "OPEN" =>
    \A f \in UpstreamFrames :
      InvalidFrame(f) =>
        /\ Len(handleMessage(Cur, f).emitted) = 1
        /\ handleMessage(Cur, f).emitted[1].event = "error"
        /\ \A g \in UpstreamFrames :
             (MalformedJson(f) /\ MissingField(g)) =>
               handleMessage(Cur, g).emitted[1].payload # handleMessage(Cur, f).emitted[1].payload

\* C14: handling an invalid upstream frame leaves the upstream socket's state,
\* the retry counter, the pending reconnects and `activeSymbols` as they were
\* and writes nothing upstream; a valid trade frame handled next is emitted as
\* a 'trade' event.
C14_InvalidFrameLeavesConnectorUnchanged ==
  ws = "OPEN" =>
    \A f \in UpstreamFrames :
      InvalidFrame(f) =>
        LET r == handleMessage(Cur, f)
        IN  /\ r.ws = ws
            /\ r.reconnectAttempts = reconnectAttempts
            /\ r.timers = timers
            /\ r.activeSymbols = activeSymbols
            /\ r.subscriptionId = subscriptionId
            /\ r.upFrames = <<>>
            /\ r.exc = ""
            /\ \A g \in TradeFrames :
                 ValidTrade(g.data) =>
                   LET r2 == handleMessage(Cleared(r), g)
                   IN  /\ Len(r2.emitted) = 1
                       /\ r2.emitted[1].event = "trade"
                       /\ r2.emitted[1].payload = TradeMessage(g.data).data

\* C14 witness: an invalid frame has just been handled (one 'error' event
\* went out to an OPEN client) while a symbol is active upstream, and the
\* socket is still OPEN with no reconnect pending
C14_Witness ==
  /\ lastOp.op = "upstream message"
  /\ Len(emitted) = 1
  /\ emitted[1].event = "error"
  /\ emitted[1].payload.message = "Invalid market data received"
  /\ ws = "OPEN"
  /\ timers = <<>>
  /\ reconnectAttempts = 0
  /\ activeSymbols # <<>>
  /\ \E c \in Clients : OfType(clientOut[c], "error") # {}

\* --------------------------------------------------- invalid client commands
\* a client message that is not JSON, or has a missing or unknown type, or is
\* a subscribe or unsubscribe without a symbol
InvalidCommand(raw) ==
  \/ ~raw.json
  \/ raw.type \notin {"subscribe", "unsubscribe"}
  \/ ~TruthyStr(raw.symbol)

IsErrorReply(msg) == msg.type = "error"

\* C15: for every invalid message of a connected client the gateway writes
\* exactly one message, an 'error', to that client and none to any other
\* client, calls the connector not at all, writes no upstream frame and leaves
\* `subscriptions` and `clientSubscriptions` as they were.
C15_InvalidCommandAnsweredWithError ==
  \A c \in Clients, raw \in ClientMessages :
    (clientReady[c] = "OPEN" /\ InvalidCommand(raw)) =>
      LET r == onClientMessage(Cur, c, raw)
      IN  /\ Len(r.clientOut[c]) = 1
          /\ IsErrorReply(r.clientOut[c][1])
          /\ \A d \in Clients \ {c} : r.clientOut[d] = <<>>
          /\ r.calls = <<>>
          /\ r.upFrames = <<>>
          /\ r.subscriptions = subscriptions
          /\ r.clientSubscriptions = clientSubscriptions

\* C16: a subscribe command whose symbol is empty, and a JSON command with no
\* type, are each answered with {type: 'error', message: 'Invalid message
\* format'} and cause no call of BinanceService.subscribe.
C16_MissingSymbolOrTypeIsInvalidFormat ==
  \A c \in Clients, raw \in ClientMessages :
    (/\ clientReady[c] = "OPEN"
     /\ raw.json
     /\ \/ raw.type = "subscribe" /\ raw.symbol = ""
        \/ raw.type = Undefined) =>
      LET r == onClientMessage(Cur, c, raw)
      IN  /\ r.clientOut[c] = << [type |-> "error", message |-> "Invalid message format"] >>
          /\ r.calls = <<>>

\* C17: right after the 'close' or the 'error' handler of a client's socket
\* has run, the client is in no symbol's subscriber set and has no entry in
\* `clientSubscriptions`.
C17_DisconnectedClientIsRemoved ==
  IsDisconnect(lastOp) =>
    /\ \A s \in DOMAIN subscriptions : ~SetHas(subscriptions[s], lastOp.client)
    /\ ~MapHas(clientSubscriptions, lastOp.client)

\* C17 witness: a socket reported a transport error while its client held two
\* symbols, one of them shared with the other client: the client is gone from
\* both maps and the other client is still registered
C17_Witness ==
  /\ lastOp.op = "error"
  /\ Len(lastOp.held) = 2
  /\ ~MapHas(clientSubscriptions, lastOp.client)
  /\ \E s \in DOMAIN subscriptions, d \in Clients \ {lastOp.client} :
       /\ SetHas(lastOp.held, s)
       /\ subscriptions[s] = << d >>

\* ------------------------------------------------------ upstream connections
\* sockets that are open or being opened
LiveConnections ==
  (IF ws \in {"CONNECTING", "OPEN"} THEN 1 ELSE 0)
  + Cardinality({i \in DOMAIN orphans : orphans[i] \in {"CONNECTING", "OPEN"}})

\* C18: after a call of connect() no reconnect is pending, and at no time is
\* more than one upstream socket open or being opened.
C18_ConnectCancelsPendingReconnect ==
  /\ lastOp.op = "connect" => timers = <<>>
  /\ LiveConnections <= 1

\* ----------------------------------------------------------------- back-off
IsUpstreamClose(op) == op.op \in {"upstream close", "orphan close"}
IsUpstreamOpen(op) == op.op \in {"upstream open", "orphan open"}

\* the delays of the first to the fifth consecutive reconnect, in ms
BackoffDelays == << 1000, 2000, 4000, 8000, 16000 >>

NonNegativeSizes(side) ==
  \A i \in 1..Len(side) : parseFloat(side[i][2]) # NaN /\ parseFloat(side[i][2]) >= 0

\* the sum of the sizes of a side, in the order given
RECURSIVE SumSizes(_, _)
SumSizes(side, n) == IF n = 0 THEN 0 ELSE SumSizes(side, n - 1) + parseFloat(side[n][2])

\* C20: for every side whose sizes are all non-negative, the ladder built from
\* it (bids or asks) has total[1] = size[1] and total[i] = total[i-1] + size[i]
\* along its own order, so that the totals never decrease, and its last total
\* is the sum of all sizes of the side.
C20_LadderTotalsAccumulate ==
  (depthKind # "none" /\ NonNegativeSizes(depthSide)) =>
    /\ Len(depthLadder) = Len(depthSide)
    /\ Len(depthLadder) > 0 =>
         /\ depthLadder[1][3] = depthLadder[1][2]
         /\ depthLadder[Len(depthLadder)][3] = SumSizes(depthSide, Len(depthSide))
    /\ \A i \in 2..Len(depthLadder) :
         /\ depthLadder[i][3] = depthLadder[i - 1][3] + depthLadder[i][2]
         /\ depthLadder[i][3] >= depthLadder[i - 1][3]

\* C20 witness: three bids given lowest price first, sizes 1, 1.5 and 1: the
\* ladder runs from the highest price down with totals 1.5, 2.5 and 3.5
\* (numbers are held as multiples of 0.5)
C20_Witness ==
  /\ depthKind = "bids"
  /\ depthSide = << <<"49900", "1">>, <<"50100", "1.5">>, <<"50000", "1">> >>
  /\ depthLadder = << <<100200, 3, 3>>, <<100000, 2, 5>>, <<99800, 2, 7>> >>

\* ------------------------------------------------------------ ladder order
\* a >= b on doubles: false when either is NaN
Geq(a, b) == a # NaN /\ b # NaN /\ a >= b

\* the ladder runs by price in the direction of its kind: bids from the
\* highest price down, asks from the lowest price up
LadderSorted(ladder, kind) ==
  \A i \in 1..(Len(ladder) - 1) :
    IF kind = "bids" THEN Geq(ladder[i][1], ladder[i + 1][1])
    ELSE Geq(ladder[i + 1][1], ladder[i][1])

\* the (price, size) pairs of the ladder are the parsed levels of the side,
\* each as often as the side holds it
LadderIsPermutation(ladder, side) ==
  /\ Len(ladder) = Len(side)
  /\ \E f \in Permutations(1..Len(side)) :
       \A i \in 1..Len(side) :
         << ladder[i][1], ladder[i][2] >> = parseDepthFloats(side[f[i]])

\* C21: whatever the order of the levels of a side, the ladder built from it
\* is sorted by price (bids descending, asks ascending) and its levels are a
\* permutation of the levels of the side.
C21_LadderSortedPermutation ==
  depthKind # "none" =>
    /\ LadderSorted(depthLadder, depthKind)
    /\ LadderIsPermutation(depthLadder, depthSide)

\* the prices of a side are all numbers
PricesParse(side) == \A i \in 1..Len(side) : parseFloat(side[i][1]) # NaN

\* C21 restricted to sides whose prices all parse
C21_ParsedPricesSortedPermutation ==
  (depthKind # "none" /\ PricesParse(depthSide)) =>
    /\ LadderSorted(depthLadder, depthKind)
    /\ LadderIsPermutation(depthLadder, depthSide)

\* ------------------------------------------------------- unparsed levels
\* a level of the side has a price or a size that parseFloat turns into NaN
SideUnparsed(side) ==
  \E i \in 1..Len(side) : parseFloat(side[i][1]) = NaN \/ parseFloat(side[i][2]) = NaN

\* a well-formed depth frame with such a level
UnparsedDepthFrame(f) ==
  /\ f.json /\ ~f.hasResult /\ f.hasStream /\ f.hasData
  /\ f.eventType = "depth20"
  /\ f.data.bidsIsArray /\ f.data.asksIsArray
  /\ SideUnparsed(f.data.bids) \/ SideUnparsed(f.data.asks)

\* the events of one name in a handler's output
EventsNamed(es, name) == {i \in 1..Len(es) : es[i].event = name}

\* C22: for every depth frame with a price or a size that does not parse as a
\* number, the connector emits an 'error' event and no 'depth' event.
C22_UnparsedDepthFrameRejected ==
  ws = "OPEN" =>
    \A f \in ConnectorFrames :
      UnparsedDepthFrame(f) =>
        LET r == handleMessage(Cur, f)
        IN  /\ EventsNamed(r.emitted, "error") # {}
            /\ EventsNamed(r.emitted, "depth") = {}

\* ------------------------------------------------------- zero-size levels
\* C23: the ladder built from a side has as many levels as the side, the
\* levels of the side themselves (none dropped, none added), in price order
\* where the prices of the side are all numbers; and every level of size zero
\* carries the total of the level before it (0 when it is the first).
C23_ZeroSizeLevelsPassThrough ==
  depthKind # "none" =>
    /\ Len(depthLadder) = Len(depthSide)
    /\ LadderIsPermutation(depthLadder, depthSide)
    /\ PricesParse(depthSide) => LadderSorted(depthLadder, depthKind)
    /\ \A i \in 1..Len(depthLadder) :
         depthLadder[i][2] = 0 =>
           depthLadder[i][3] = IF i = 1 THEN 0 ELSE depthLadder[i - 1][3]

\* C23 witness: three bids, the one at the middle price of size zero: it
\* stands second in the ladder with the total of the first
C23_Witness ==
  /\ depthKind = "bids"
  /\ depthSide = << <<"49900", "1">>, <<"50100", "1.5">>, <<"50000", "0">> >>
  /\ depthLadder = << <<100200, 3, 3>>, <<100000, 0, 3>>, <<99800, 2, 5>> >>

\* ------------------------------------------------------------ symbol case
\* the keys of the registry that name the same symbol as s, whatever their case
SameSymbolKeys(map, s) == {k \in DOMAIN map : toUpperCase(k) = toUpperCase(s)}

\* C24: when an OPEN client subscribes to a symbol in lower case while the
\* upstream is OPEN, the registry holds one entry for the symbol whatever the
\* case other clients used, the handler writes an upstream SUBSCRIBE only if
\* no client held the symbol before, and a trade the upstream reports for the
\* symbol afterwards is written to the client.
C24_SymbolCaseNormalized ==
  ws = "OPEN" =>
    \A c \in Clients, s \in Symbols :
      clientReady[c] = "OPEN" =>
        LET r == handleSubscribe(Cur, c, toLowerCase(s))
        IN  /\ Cardinality(SameSymbolKeys(r.subscriptions, s)) = 1
            /\ MapHas(subscriptions, s) => r.upFrames = <<>>
            /\ \A f \in TradeFrames :
                 (ValidTrade(f.data) /\ f.data.s = s) =>
                   handleMessage(Cleared(r), f).clientOut[c] = << TradeMessage(f.data) >>

\* --------------------------------------------------------- delivery order
\* the events of symbol s among the events the connector emitted, as the
\* messages the gateway makes of them
DataEvents == {"trade", "depth", "ticker"}
MessageOf(e) ==
  [type |-> IF e.event = "depth" THEN "depth20" ELSE e.event, data |-> e.payload]
ReceivedFor(es, s) ==
  LET mine == SelectSeq(es, LAMBDA e : e.event \in DataEvents /\ e.payload.symbol = s)
  IN  [i \in 1..Len(mine) |-> MessageOf(mine[i])]

\* the messages about symbol s among those written to a client
DeliveredFor(out, s) ==
  SelectSeq(out, LAMBDA m : m.type \in {"trade", "depth20", "ticker"} /\ m.data.symbol = s)

\* a is b with some elements left out
RECURSIVE IsSubseq(_, _)
IsSubseq(a, b) ==
  IF a = <<>> THEN TRUE
  ELSE IF b = <<>> THEN FALSE
  ELSE IF Head(a) = Head(b) THEN IsSubseq(Tail(a), Tail(b))
  ELSE IsSubseq(a, Tail(b))

NoErrorEvent(es) == \A i \in 1..Len(es) : es[i].event # "error"

\* C25: over any two upstream frames handled one after the other, what a
\* client is sent about a symbol is a subsequence of the events the connector
\* emitted for that symbol, in their order and none of them twice; and it is
\* all of them when the client is an OPEN subscriber of the symbol and no
\* error was raised while the frames were handled.
C25_PerSymbolOrderPreserved ==
  [][ (lastOp.op = "upstream message" /\ lastOp'.op = "upstream message") =>
        \A c \in Clients, s \in Symbols :
          LET got == DeliveredFor(clientOut[c] \o clientOut'[c], s)
              all == ReceivedFor(emitted \o emitted', s)
          IN  /\ IsSubseq(got, all)
              /\ ( /\ c \in Subscribers(s) /\ clientReady[c] = "OPEN"
                   /\ NoErrorEvent(emitted) /\ NoErrorEvent(emitted') ) => got = all
    ]_vars

\* C25 witness: a client holding both symbols has just been sent the depth
\* ladder of BTCUSDT, once, and nothing else
C25_Witness ==
  /\ lastOp.op = "upstream message"
  /\ \E c \in Clients :
       /\ c \in Subscribers("BTCUSDT") /\ c \in Subscribers("ETHUSDT")
       /\ Len(clientOut[c]) = 1
       /\ clientOut[c][1].type = "depth20"
       /\ clientOut[c][1].data.symbol = "BTCUSDT"
       /\ Len(emitted) = 1

\* ---------------------------------------------------------- error fan-out
\* the message the gateway makes of a connector error with the given code
ErrorMessage(code) ==
  [type |-> "error", data |-> [message |-> "Market data service error", code |-> code]]

\* the 'error' events among the events of a handler
ErrorEvents(es) == SelectSeq(es, LAMBDA e : e.event = "error")

C27_PingAnsweredWithOnePong ==
  /\ \A data \in PingPayloads :
       onPing(Cur, data).heartbeat =
         IF ws = "OPEN" THEN << [frame |-> "pong", data |-> data] >> ELSE <<>>
  /\ \A i \in 1..Len(heartbeat) : heartbeat[i].frame = "pong"
  /\ heartbeat # <<>> => (lastOp.op = "upstream ping" /\ Len(heartbeat) = 1 /\ ws = "OPEN")
  /\ (lastOp.op = "upstream ping" /\ ws # "OPEN") => heartbeat = <<>>

\* C27 witness: a ping with a payload has been answered on the OPEN socket
C27_Witness ==
  /\ lastOp.op = "upstream ping"
  /\ ws = "OPEN"
  /\ heartbeat = << [frame |-> "pong", data |-> "test-ping-data"] >>

\* ------------------------------------------------ resubscribe on reconnect
\* C28: the SUBSCRIBE frames written by the 'open' handler name only symbols
\* that have an interested client at that moment.
C28_ResubscribeOnlyInterested ==
  lastOp.op = "upstream open" =>
    \A s \in Symbols :
      NumFrames(upFrames, "SUBSCRIBE", s) > 0 => Count(s) > 0

\* ------------------------------------------- socket.io gateway: subscribe
\* a handleSubscribe call of another client for symbol s is suspended at its
\* await with the upstream subscribe done
SubscribeInFlight(s, c) ==
  \E i \in 1..Len(awaiting) :
    awaiting[i].symbol = s /\ ~awaiting[i].rejected /\ awaiting[i].client # c

\* C29: a handleSubscribe call that starts while another client's call for
\* the same symbol is suspended at its await, its upstream subscribe done,
\* writes no SUBSCRIBE frame for the symbol; and a call that resumes with the
\* subscribe done leaves its client in the symbol's room.
C29_InterleavedSubscribesIssueOne ==
  [][ /\ \A s \in Symbols :
           (lastOp'.op = "io subscribe" /\ lastOp'.held = << s >>
            /\ SubscribeInFlight(s, lastOp'.client)) =>
             NumFrames(upFrames', "SUBSCRIBE", s) = 0
      /\ (lastOp'.op = "io subscribe resumed" /\ awaiting # <<>>
          /\ ~Head(awaiting).rejected) =>
            /\ MapHas(rooms', Head(awaiting).symbol)
            /\ SetHas(rooms'[Head(awaiting).symbol], Head(awaiting).client)
    ]_vars

\* C30: when a handleSubscribe call resumes with the upstream subscribe
\* rejected, its client is sent one 'error' event with the rejection's
\* message and code, nothing is sent to any other client, and neither
\* this.activeSymbols nor any room changes.
C30_FailedSubscribeReportedToRequester ==
  [][ (lastOp'.op = "io subscribe resumed" /\ awaiting # <<>> /\ Head(awaiting).rejected) =>
        LET h == Head(awaiting)
        IN  /\ clientOut' = [c \in Clients |->
                  IF c = h.client
                  THEN << [event |-> "error",
                           payload |-> [message |-> h.error.message, code |-> h.error.code]] >>
                  ELSE <<>>]
            /\ h.error.code = ErrorCodes.WEBSOCKET_CONNECTION_CLOSED
            /\ gatewayActiveSymbols' = gatewayActiveSymbols
            /\ rooms' = rooms
            /\ ~SetHas(gatewayActiveSymbols', h.symbol) =>
                 (~MapHas(rooms', h.symbol) \/ ~SetHas(rooms'[h.symbol], h.client))
    ]_vars

\* C30 witness: a subscribe made while the upstream was not OPEN has been
\* reported to its client, with another client connected; the symbol is not
\* active and has no room
C30_Witness ==
  /\ lastOp.op = "io subscribe resumed"
  /\ lastOp.held = << "BTCUSDT" >>
  /\ \E c, d \in Clients :
       /\ c # d /\ lastOp.client = c
       /\ clientReady[c] = "OPEN" /\ clientReady[d] = "OPEN"
       /\ Len(clientOut[c]) = 1
       /\ clientOut[c][1].event = "error"
       /\ clientOut[c][1].payload.message = "WebSocket not connected"
       /\ clientOut[d] = <<>>
  /\ ~SetHas(gatewayActiveSymbols, "BTCUSDT")
  /\ ~MapHas(rooms, "BTCUSDT")

\* ------------------------------------- older connector: unknown event types
\* event objects whose type the older handleMessage has no handler for
OlderKnownTypes == {"trade", "depthUpdate", "24hrTicker"}
OlderUnknownFrames == {f \in OlderFrames : f.json /\ f.object /\ f.e \notin OlderKnownTypes}

\* C31: in the older connector a message whose event type is none of trade,
\* depthUpdate, 24hrTicker leads to one 'error' event carrying
\* AppError('Invalid market data received', INVALID_MARKET_DATA, 400) and to
\* no data event.
C31_UnknownEventTypeIsInvalidData ==
  ws = "OPEN" =>
    \A f \in OlderUnknownFrames :
      LET r == olderOnMessage(Cur, f)
      IN  /\ \E i \in 1..Len(r.emitted) :
               r.emitted[i] = [event |-> "error",
                               payload |-> AppError("Invalid market data received",
                                                    ErrorCodes.INVALID_MARKET_DATA, 400)]
          /\ EventsNamed(r.emitted, "trade") = {}
          /\ EventsNamed(r.emitted, "depth") = {}
          /\ EventsNamed(r.emitted, "ticker") = {}

\* ------------------------------------------------- fan-out and the registry
\* the handlers in which the gateway fans an event out: the connector's
\* 'message', 'error' and 'close' listeners emit the events it listens to
IsFanout(op) == op.op \in {"upstream message", "upstream error", "upstream close"}

\* C32: fanning an event out to the clients sends nothing upstream and
\* changes no registry state: over such a handler `subscriptions`,
\* `clientSubscriptions` and the connector's activeSymbols stay as they were,
\* the gateway makes no subscribe/unsubscribe call and no SUBSCRIBE or
\* UNSUBSCRIBE frame is written.
C32_FanoutLeavesRegistryAndUpstreamAlone ==
  [][IsFanout(lastOp') =>
       /\ subscriptions' = subscriptions
       /\ clientSubscriptions' = clientSubscriptions
       /\ activeSymbols' = activeSymbols
       /\ subscriptionId' = subscriptionId
       /\ calls' = <<>>
       /\ upFrames' = <<>>]_vars

\* a trade has been fanned out to both clients
C32_Witness ==
  /\ lastOp.op = "upstream message"
  /\ \A c \in Clients : clientOut[c] # <<>> /\ clientOut[c][1].type = "trade"
  /\ activeSymbols # <<>>

\* ------------------------------------------------------- after disconnect()
\* C33: after disconnect() no reconnect is pending, none is scheduled later
\* and no upstream connection is created until connect() is called again:
\* disconnect() leaves no timer, and while this.ws is null a handler other
\* than connect() leaves it null and leaves no timer.
C33_NoReconnectAfterDisconnect ==
  [][/\ lastOp'.op = "disconnect" => timers' = <<>>
     /\ (ws = "null" /\ lastOp'.op # "connect") => (ws' = "null" /\ timers' = <<>>)]_vars

\* C33 for the older connector, whose disconnect() cancels the pending timer
\* but whose 'close' listener schedules a new one all the same
C33_OlderNoReconnectAfterDisconnect ==
  [][/\ lastOp'.op = "older disconnect" => timers' = <<>>
     /\ (ws = "null" /\ lastOp'.op # "older connect") => (ws' = "null" /\ timers' = <<>>)]_vars

\* ------------------------------------------------ the two registry maps
\* client c is in subscriptions[s] / symbol s is in clientSubscriptions[c]
InSubscriptions(c, s) == MapHas(subscriptions, s) /\ SetHas(subscriptions[s], c)
InClientSubscriptions(c, s) == MapHas(clientSubscriptions, c) /\ SetHas(clientSubscriptions[c], s)

\* C34: the two registry maps agree in every reachable state, under any
\* ordering of a client's 'error', 'message' and 'close' events: c is in
\* subscriptions[s] if and only if s is in clientSubscriptions[c], so a client
\* that has been removed is in no symbol's subscriber set.
C34_RegistryMapsAgree ==
  \A c \in Clients, s \in Symbols : InSubscriptions(c, s) <=> InClientSubscriptions(c, s)

\* ------------------------------------------------------- no empty entries
\* C35: after any completed gateway operation `subscriptions` maps no symbol
\* to an empty client set, and it has an entry for a symbol exactly when at
\* least one client holds the symbol.
C35_NoEmptySubscriberSet ==
  /\ \A s \in DOMAIN subscriptions : subscriptions[s] # <<>>
  /\ \A s \in Symbols :
       MapHas(subscriptions, s) <=> \E c \in Clients : InClientSubscriptions(c, s)

\* the last holder of a symbol has just left it (unsubscribe, 'error' or
\* 'close') and the entry is gone, another symbol's entry remaining
C35_Witness ==
  /\ lastOp.op \in {"message", "error", "close"}
  /\ calls # <<>>
  /\ calls[1].method = "unsubscribe"
  /\ ~MapHas(subscriptions, calls[1].symbol)
  /\ subscriptions # EmptyMap

\* -------------------------------------- activeSymbols and control frames
\* C36: the connector's activeSymbols changes only in a handler that wrote a
\* control frame; a subscribe that is rejected (socket not OPEN, or send
\* throws) and an unsubscribe that wrote no frame leave it exactly as it was.
C36_ActiveSymbolsFollowSentFrames ==
  [][/\ activeSymbols' # activeSymbols => upFrames' # <<>>
     /\ (lastOp'.op = "subscribe" /\ rejected' # <<>>) =>
          (activeSymbols' = activeSymbols /\ upFrames' = <<>>)
     /\ (lastOp'.op = "unsubscribe" /\ upFrames' = <<>>) =>
          activeSymbols' = activeSymbols]_vars

\* a subscribe whose send threw on an open socket, another symbol being active
C36_Witness ==
  /\ lastOp.op = "subscribe"
  /\ ws = "OPEN"
  /\ rejected # <<>>
  /\ rejected[1].code = ErrorCodes.WEBSOCKET_SUBSCRIPTION_FAILED
  /\ activeSymbols # <<>>
  /\ ~SetHas(activeSymbols, lastOp.held[1])

\* ------------------------------------------------------ attempt counter
\* C37: reconnectAttempts stays within 0..maxReconnectAttempts; a close that
\* finds it below the maximum increments it by exactly one and schedules
\* exactly one reconnect; an open sets it back to 0.
C37_AttemptCounterWithinRange ==
  [][/\ reconnectAttempts' \in 0..maxReconnectAttempts
     /\ (IsUpstreamClose(lastOp') /\ reconnectAttempts < maxReconnectAttempts) =>
          (reconnectAttempts' = reconnectAttempts + 1 /\ Len(timers') = Len(timers) + 1)
     /\ IsUpstreamOpen(lastOp') => reconnectAttempts' = 0]_vars

\* the third consecutive close has been counted and its reconnect is the only
\* one pending
C37_Witness ==
  /\ IsUpstreamClose(lastOp)
  /\ reconnectAttempts = 3
  /\ timers = << 4000 >>

\* C37 for the older connector, which keeps one timer at most
C37_OlderAttemptCounterWithinRange ==
  [][/\ reconnectAttempts' \in 0..maxReconnectAttempts
     /\ (lastOp'.op \in {"older close", "older orphan close"}
         /\ reconnectAttempts < maxReconnectAttempts) =>
          (reconnectAttempts' = reconnectAttempts + 1 /\ timers' = << olderReconnectDelay >>)
     /\ lastOp'.op \in {"older open", "older orphan open"} => reconnectAttempts' = 0]_vars

\* ------------------------------------------------- writes and readyState
\* C38: broadcastToSymbol and broadcastToAll write only to clients whose
\* socket is OPEN when the broadcast runs; a client that is connecting,
\* closing or closed gets no write.
C38_BroadcastWritesOnlyToOpen ==
  [][IsFanout(lastOp') =>
       \A c \in Clients : clientOut'[c] # <<>> => clientReady[c] = "OPEN"]_vars

\* a trade went to a symbol with one subscriber open and one closing: the
\* open one got it, the closing one got nothing
C38_Witness ==
  /\ lastOp.op = "upstream message"
  /\ \E s \in Symbols, c \in Clients, d \in Clients :
       /\ InSubscriptions(c, s) /\ InSubscriptions(d, s)
       /\ clientReady[c] = "OPEN" /\ clientOut[c] # <<>> /\ clientOut[c][1].type = "trade"
       /\ clientReady[d] = "CLOSING" /\ clientOut[d] = <<>>

\* the symbols for which the last handler emitted a 'subscribe' on the socket
SubscribeEmittedFor ==
  {socketEmitted[i].arg : i \in {j \in 1..Len(socketEmitted) : socketEmitted[j].event = "subscribe"}}

\* C39: in the frontend MarketProvider, after each socket 'connect' event
\* (the first connection and every reconnection) a 'subscribe' has been
\* emitted on the connection for every symbol the application has subscribed
\* to and not since unsubscribed, and for no other symbol.
C39_ConnectSubscribesEverySubscribedSymbol ==
  lastOp.op = "socket connect" => SubscribeEmittedFor = appSubscribed

\* C39, the half about unsubscribed symbols: the 'connect' listener emits no
\* 'subscribe' for a symbol the application is not subscribed to.
C39_ConnectSubscribesNoUnsubscribedSymbol ==
  lastOp.op = "socket connect" => SubscribeEmittedFor \subseteq appSubscribed

\* the trades of a symbol in a reducer state, <<>> when it has none
TradesOf(state, symbol) ==
  IF MapHas(state.trades, symbol) THEN state.trades[symbol] ELSE <<>>

\* a trade list of at most `limit` trades, in the order received with the
\* newest first: the trade received last is at index 0 and each next one was
\* received just before
NewestFirst(list, symbol, limit) ==
  /\ Len(list) <= limit
  /\ \A i \in 1..Len(list) :
       /\ list[i].symbol = symbol
       /\ list[i].tradeId = tradeIds[symbol] - (i - 1)

\* what a trade action for `symbol` may not change
TradeActionLeavesRestAlone(before, after, symbol) ==
  /\ after.tickers = before.tickers
  /\ after.orderBooks = before.orderBooks
  /\ \A s \in Symbols \ {symbol} :
       /\ MapHas(after.trades, s) = MapHas(before.trades, s)
       /\ TradesOf(after, s) = TradesOf(before, s)

\* the symbol whose trade the step received
TradeSymbol == CHOOSE s \in Symbols : tradeIds'[s] # tradeIds[s]

\* C40: in the frontend market reducer, after any sequence of actions each
\* symbol's trade list holds at most 20 trades, newest first with the trade
\* received last at index 0 (the last 20 received, once 20 have been), and a
\* trade action leaves tickers, order books and other symbols' trade lists
\* unchanged.
C40_TradeListBoundedNewestFirst ==
  /\ [](\A s \in Symbols :
          /\ NewestFirst(TradesOf(marketState, s), s, TradeListLimit)
          /\ Len(TradesOf(marketState, s)) = Min(tradeIds[s], TradeListLimit))
  /\ [][lastOp'.held = <<"SET_TRADE">> =>
          /\ tradeIds' # tradeIds
          /\ TradeActionLeavesRestAlone(marketState, marketState', TradeSymbol)]_vars

\* C40 witness: the first symbol has received more than 20 trades and keeps
\* 20, with a ticker, an order book and another symbol's trades in the state.
C40_Witness ==
  /\ lastOp.held = <<"SET_TRADE">>
  /\ tradeIds["BTCUSDT"] > TradeListLimit
  /\ Len(TradesOf(marketState, "BTCUSDT")) = TradeListLimit
  /\ marketState.trades["BTCUSDT"][1].tradeId = tradeIds["BTCUSDT"]
  /\ MapHas(marketState.tickers, "ETHUSDT")
  /\ MapHas(marketState.orderBooks, "BTCUSDT")
  /\ Len(TradesOf(marketState, "ETHUSDT")) > 0

\* C40 for the older reducer: at most 10 trades per symbol, newest first with
\* the trade received last at index 0, and ADD_TRADE leaves tickers, order
\* books and other symbols' trade lists unchanged.
C40_OlderTradeListBoundedNewestFirst ==
  /\ [](\A s \in Symbols :
          NewestFirst(TradesOf(olderMarketState, s), s, MAX_TRADES))
  /\ [][lastOp'.held = <<"ADD_TRADE">> =>
          /\ tradeIds' # tradeIds
          /\ Len(TradesOf(olderMarketState', TradeSymbol)) > 0
          /\ TradeActionLeavesRestAlone(olderMarketState, olderMarketState', TradeSymbol)]_vars

\* C40 witness for the older reducer
C40_OlderWitness ==
  /\ lastOp.held = <<"ADD_TRADE">>
  /\ tradeIds["BTCUSDT"] > MAX_TRADES
  /\ Len(TradesOf(olderMarketState, "BTCUSDT")) = MAX_TRADES
  /\ MapHas(olderMarketState.tickers, "ETHUSDT")
  /\ Len(TradesOf(olderMarketState, "ETHUSDT")) > 0

====
